---- MODULE Spec2Model ----
(***************************************************************************)
(* A model of wal-analyzer: the WAL header and frame parsers, the rolling  *)
(* checksum, the commit iterator, the page cache (overlay over the base    *)
(* file), the driver `validate`, the B-tree scanner and the validators of  *)
(* validators/.                                                            *)
(*                                                                         *)
(* Files are byte sequences.  Rust slices are 0-based; every operator that *)
(* takes an offset takes the 0-based offset of the source.                 *)
(*                                                                         *)
(* A u32 that takes part in the wrapping checksum arithmetic is a pair     *)
(* <<hi, lo>> of 16-bit halves, so that the arithmetic is exactly modulo   *)
(* 2^32.  The other u32 header fields (magic, page size, page numbers,     *)
(* salts) are integers; the files the model enumerates keep them below     *)
(* 2^31.                                                                   *)
(***************************************************************************)
EXTENDS Integers, Sequences, FiniteSets, TLC

VARIABLES
    wal_file,      \* the bytes of the WAL file
    db_file,       \* the bytes of the base database file
    iter,          \* the CommitIterator (or the error CommitIterator::new returned)
    results,       \* what the calls of CommitIterator::next returned, in order
    page_cache,    \* the PageCache
    n_applied,     \* how many of the emitted commits apply_commit has been given
    wal_facts,     \* what wal_file holds, read off its bytes once (never changes)
    phase,         \* where validate is: start, base, open, loop, scan, returned, exited
    db_header,     \* validate's db_header
    all_reports,   \* validate's all_reports
    total_commits, \* validate's total_commits
    returned,      \* what validate returned
    exit_code,     \* the exit status of main
    passes,        \* the passes validate has run: what each was given and saw
    scenario,      \* what the database file of a scan was built from (never changes)
    discovered,    \* what discover_btrees returned
    table_scan,    \* the last call of collect_table_rowids: its root and what it returned
    key_scan,      \* the last call of collect_index_keys: its root and what it returned
    rowid_scan,    \* the last call of collect_index_rowids: its root and what it returned
    rowid_issues,  \* what DuplicateRowidValidator::validate returned
    key_issues,    \* what DuplicateIndexKeyValidator::validate returned
    integrity_issues, \* what IndexIntegrityValidator::validate returned
    scan_reports,  \* what a pass of lib.rs validate returned for the database
    intra,         \* the last call of is_intra_page: its entry and what it returned
    key_pair,      \* the last two calls of extract_index_key: payloads and keys
    probe          \* the last call of another function: its name, input and result

driver_vars == <<phase, db_header, all_reports, total_commits, returned, exit_code, passes>>

scan_vars == <<scenario, discovered, table_scan, key_scan, rowid_scan, rowid_issues,
               key_issues, integrity_issues, scan_reports, intra, key_pair, probe>>

vars == <<wal_file, db_file, iter, results, page_cache, n_applied, wal_facts,
          phase, db_header, all_reports, total_commits, returned, exit_code, passes,
          scenario, discovered, table_scan, key_scan, rowid_scan, rowid_issues,
          key_issues, integrity_issues, scan_reports, intra, key_pair, probe>>

----------------------------------------------------------------------------
(* Bounds of the model. *)

\* frames written to a WAL file
MaxFrames == 2
\* 8-byte chunks in a page of the iterator-level files
PageChunks == 2
\* calls of CommitIterator::next by the consumer
MaxCalls == 4

----------------------------------------------------------------------------
(* Bytes and words. *)

\* data[a..b] of the source
Slice(data, a, b) == SubSeq(data, a + 1, b)

Min(a, b) == IF a < b THEN a ELSE b

\* BigEndian::read_u32 as an integer (fields kept below 2^31)
ReadU32BE(data, off) ==
    ((data[off + 1] * 256 + data[off + 2]) * 256 + data[off + 3]) * 256 + data[off + 4]

\* BigEndian::read_u32 as a pair of 16-bit halves
WordBE(data, off) ==
    <<data[off + 1] * 256 + data[off + 2], data[off + 3] * 256 + data[off + 4]>>

\* LittleEndian::read_u32 as a pair of 16-bit halves
WordLE(data, off) ==
    <<data[off + 4] * 256 + data[off + 3], data[off + 2] * 256 + data[off + 1]>>

\* u32::wrapping_add on pairs of 16-bit halves
wrapping_add(a, b) ==
    LET lo == a[2] + b[2]
        hi == a[1] + b[1] + (lo \div 65536)
    IN  <<hi % 65536, lo % 65536>>

\* the seed (0, 0) of the header checksum
Seed00 == <<(<<0, 0>>), (<<0, 0>>)>>

\* the big-endian bytes of an integer below 2^31
BE32(n) == <<n \div 16777216, (n \div 65536) % 256, (n \div 256) % 256, n % 256>>

\* the big-endian bytes of a word
WordBytes(w) == <<w[1] \div 256, w[1] % 256, w[2] \div 256, w[2] % 256>>

----------------------------------------------------------------------------
(* wal/header.rs *)

WAL_MAGIC_BE == 931071618   \* 0x377f0682
WAL_MAGIC_LE == 931071619   \* 0x377f0683

\* WalHeader::parse
WalHeader_parse(data) ==
    IF Len(data) < 32 THEN [ok |-> FALSE, err |-> [kind |-> "UnexpectedEof"]]
    ELSE LET magic == ReadU32BE(data, 0) IN
         IF magic # WAL_MAGIC_BE /\ magic # WAL_MAGIC_LE
         THEN [ok |-> FALSE, err |-> [kind |-> "InvalidWalMagic", magic |-> magic]]
         ELSE [ok |-> TRUE,
               magic |-> magic,
               format_version |-> ReadU32BE(data, 4),
               page_size |-> ReadU32BE(data, 8),
               checkpoint_seq |-> ReadU32BE(data, 12),
               salt1 |-> ReadU32BE(data, 16),
               salt2 |-> ReadU32BE(data, 20),
               checksum1 |-> WordBE(data, 24),
               checksum2 |-> WordBE(data, 28),
               big_endian_checksums |-> (magic = WAL_MAGIC_BE)]

\* a mutant of ChecksumChunk: the second sum adds the first sum as it was
\* before the chunk
ChecksumChunk_old_s0(data, i, s, big_endian) ==
    IF Min(i + 8, Len(data)) - i # 8 THEN s
    ELSE LET v0 == IF big_endian THEN WordBE(data, i) ELSE WordLE(data, i)
             v1 == IF big_endian THEN WordBE(data, i + 4) ELSE WordLE(data, i + 4)
         IN  <<wrapping_add(wrapping_add(s[1], v0), s[2]),
               wrapping_add(wrapping_add(s[2], v1), s[1])>>

\* the body of the loop of WalHeader::checksum for the chunk at offset i: a
\* chunk of fewer than 8 bytes (the last one) leaves the sums as they are
ChecksumChunk(data, i, s, big_endian) ==
    IF Min(i + 8, Len(data)) - i # 8 THEN s
    ELSE LET v0 == IF big_endian THEN WordBE(data, i) ELSE WordLE(data, i)
             v1 == IF big_endian THEN WordBE(data, i + 4) ELSE WordLE(data, i + 4)
             s0 == wrapping_add(wrapping_add(s[1], v0), s[2])
             s1 == wrapping_add(wrapping_add(s[2], v1), s0)
         IN  <<s0, s1>>

\* the loop of WalHeader::checksum over the chunks of data[i..].  Range of
\* <<lo, hi, sums>> is the sums after the chunks lo..hi-1 of chunks(8), taken
\* in order: those of the first half, then those of the second half.
ChecksumChunks(data, i, s, big_endian) ==
    LET rest == Slice(data, i, Len(data))
        Range[x \in Nat \X Nat \X Seq(Seq(Nat))] ==
            IF x[2] <= x[1] THEN x[3]
            ELSE IF x[2] = x[1] + 1 THEN ChecksumChunk(rest, 8 * x[1], x[3], big_endian)
            ELSE Range[<<(x[1] + x[2]) \div 2, x[2],
                         Range[<<x[1], (x[1] + x[2]) \div 2, x[3]>>]>>]
    IN  Range[<<0, (Len(rest) + 7) \div 8, s>>]

\* WalHeader::checksum
checksum(hdr, data, initial) ==
    ChecksumChunks(data, 0, initial, hdr.big_endian_checksums)

----------------------------------------------------------------------------
(* wal/frame.rs *)

\* FrameHeader::parse
FrameHeader_parse(data) ==
    IF Len(data) < 24 THEN [ok |-> FALSE, err |-> [kind |-> "UnexpectedEof"]]
    ELSE [ok |-> TRUE,
          page_number |-> ReadU32BE(data, 0),
          db_size_after_commit |-> ReadU32BE(data, 4),
          salt1 |-> ReadU32BE(data, 8),
          salt2 |-> ReadU32BE(data, 12),
          checksum1 |-> WordBE(data, 16),
          checksum2 |-> WordBE(data, 20)]

\* a mutant of is_commit: every frame counts as a commit frame
is_commit_always(h) == h.db_size_after_commit >= 0

\* FrameHeader::is_commit
is_commit(h) == h.db_size_after_commit # 0

----------------------------------------------------------------------------
(* wal/iterator.rs *)

\* CommitIterator::new on the bytes of the file at `path`
CommitIterator_new(file) ==
    IF Len(file) < 32 THEN [ok |-> FALSE, err |-> [kind |-> "Io"]]
    ELSE LET header_bytes == Slice(file, 0, 32)
             wal_header == WalHeader_parse(header_bytes)
         IN  IF ~wal_header.ok THEN [ok |-> FALSE, err |-> wal_header.err]
             ELSE [ok |-> TRUE,
                   page_size |-> wal_header.page_size,
                   wal_header |-> wal_header,
                   current_frame_index |-> 0,
                   current_commit_index |-> 0,
                   pending_frames |-> <<>>,
                   current_checksum |->
                       checksum(wal_header, Slice(header_bytes, 0, 24), Seed00),
                   finished |-> FALSE]

\* a mutant of read_frame: the salts are not compared
read_frame_any_salt(it, file) ==
    LET frame_size == 24 + it.page_size
        offset == 32 + it.current_frame_index * frame_size
    IN  IF offset + 24 + it.page_size > Len(file) THEN [tag |-> "None", it |-> it]
        ELSE
        LET header_bytes == Slice(file, offset, offset + 24)
            frame_header == FrameHeader_parse(header_bytes)
            page_data == Slice(file, offset + 24, offset + 24 + it.page_size)
            c1 == checksum(it.wal_header, Slice(header_bytes, 0, 8), it.current_checksum)
            c2 == checksum(it.wal_header, page_data, c1)
        IN  IF c2[1] # frame_header.checksum1 \/ c2[2] # frame_header.checksum2
            THEN [tag |-> "Err", it |-> it,
                  err |-> [kind |-> "ChecksumMismatch",
                           frame_index |-> it.current_frame_index]]
            ELSE [tag |-> "Some",
                  frame |-> [header |-> frame_header,
                             page_data |-> page_data,
                             frame_index |-> it.current_frame_index],
                  it |-> [it EXCEPT !.current_checksum = c2,
                                    !.current_frame_index = @ + 1]]

\* a mutant of read_frame: the checksum is verified before the salts are compared
read_frame_checksum_first(it, file) ==
    LET frame_size == 24 + it.page_size
        offset == 32 + it.current_frame_index * frame_size
    IN  IF offset + 24 + it.page_size > Len(file) THEN [tag |-> "None", it |-> it]
        ELSE
        LET header_bytes == Slice(file, offset, offset + 24)
            frame_header == FrameHeader_parse(header_bytes)
            page_data == Slice(file, offset + 24, offset + 24 + it.page_size)
            c1 == checksum(it.wal_header, Slice(header_bytes, 0, 8), it.current_checksum)
            c2 == checksum(it.wal_header, page_data, c1)
        IN  IF c2[1] # frame_header.checksum1 \/ c2[2] # frame_header.checksum2
            THEN [tag |-> "Err", it |-> it,
                  err |-> [kind |-> "ChecksumMismatch",
                           frame_index |-> it.current_frame_index]]
            ELSE IF frame_header.salt1 # it.wal_header.salt1
                    \/ frame_header.salt2 # it.wal_header.salt2
            THEN [tag |-> "None", it |-> it]
            ELSE [tag |-> "Some",
                  frame |-> [header |-> frame_header,
                             page_data |-> page_data,
                             frame_index |-> it.current_frame_index],
                  it |-> [it EXCEPT !.current_checksum = c2,
                                    !.current_frame_index = @ + 1]]

\* a mutant of read_frame: a frame of a wrong checksum ends the log quietly
read_frame_quiet_mismatch(it, file) ==
    LET frame_size == 24 + it.page_size
        offset == 32 + it.current_frame_index * frame_size
    IN  IF offset + 24 > Len(file) THEN [tag |-> "None", it |-> it]
        ELSE
        LET header_bytes == Slice(file, offset, offset + 24)
            frame_header == FrameHeader_parse(header_bytes)
        IN  IF frame_header.salt1 # it.wal_header.salt1
               \/ frame_header.salt2 # it.wal_header.salt2
            THEN [tag |-> "None", it |-> it]
            ELSE IF offset + 24 + it.page_size > Len(file) THEN [tag |-> "None", it |-> it]
            ELSE
            LET page_data == Slice(file, offset + 24, offset + 24 + it.page_size)
                c1 == checksum(it.wal_header, Slice(header_bytes, 0, 8), it.current_checksum)
                c2 == checksum(it.wal_header, page_data, c1)
            IN  IF c2[1] # frame_header.checksum1 \/ c2[2] # frame_header.checksum2
                THEN [tag |-> "None", it |-> it]
                ELSE [tag |-> "Some",
                      frame |-> [header |-> frame_header,
                                 page_data |-> page_data,
                                 frame_index |-> it.current_frame_index],
                      it |-> [it EXCEPT !.current_checksum = c2,
                                        !.current_frame_index = @ + 1]]

\* a mutant of read_frame: the running checksum is updated before the stored
\* checksum is compared
read_frame_checksum_kept(it, file) ==
    LET frame_size == 24 + it.page_size
        offset == 32 + it.current_frame_index * frame_size
    IN  IF offset + 24 > Len(file) THEN [tag |-> "None", it |-> it]
        ELSE
        LET header_bytes == Slice(file, offset, offset + 24)
            frame_header == FrameHeader_parse(header_bytes)
        IN  IF frame_header.salt1 # it.wal_header.salt1
               \/ frame_header.salt2 # it.wal_header.salt2
            THEN [tag |-> "None", it |-> it]
            ELSE IF offset + 24 + it.page_size > Len(file) THEN [tag |-> "None", it |-> it]
            ELSE
            LET page_data == Slice(file, offset + 24, offset + 24 + it.page_size)
                c1 == checksum(it.wal_header, Slice(header_bytes, 0, 8), it.current_checksum)
                c2 == checksum(it.wal_header, page_data, c1)
            IN  IF c2[1] # frame_header.checksum1 \/ c2[2] # frame_header.checksum2
                THEN [tag |-> "Err", it |-> [it EXCEPT !.current_checksum = c2],
                      err |-> [kind |-> "ChecksumMismatch",
                               frame_index |-> it.current_frame_index]]
                ELSE [tag |-> "Some",
                      frame |-> [header |-> frame_header,
                                 page_data |-> page_data,
                                 frame_index |-> it.current_frame_index],
                      it |-> [it EXCEPT !.current_checksum = c2,
                                        !.current_frame_index = @ + 1]]

\* CommitIterator::read_frame: Ok(Some(frame)), Ok(None) or Err(e), and the iterator after it
read_frame(it, file) ==
    LET frame_size == 24 + it.page_size
        offset == 32 + it.current_frame_index * frame_size
    IN  IF offset + 24 > Len(file) THEN [tag |-> "None", it |-> it]
        ELSE
        LET header_bytes == Slice(file, offset, offset + 24)
            frame_header == FrameHeader_parse(header_bytes)
        IN  IF frame_header.salt1 # it.wal_header.salt1
               \/ frame_header.salt2 # it.wal_header.salt2
            THEN [tag |-> "None", it |-> it]
            ELSE IF offset + 24 + it.page_size > Len(file) THEN [tag |-> "None", it |-> it]
            ELSE
            LET page_data == Slice(file, offset + 24, offset + 24 + it.page_size)
                c1 == checksum(it.wal_header, Slice(header_bytes, 0, 8), it.current_checksum)
                c2 == checksum(it.wal_header, page_data, c1)
            IN  IF c2[1] # frame_header.checksum1 \/ c2[2] # frame_header.checksum2
                THEN [tag |-> "Err", it |-> it,
                      err |-> [kind |-> "ChecksumMismatch",
                               frame_index |-> it.current_frame_index]]
                ELSE [tag |-> "Some",
                      frame |-> [header |-> frame_header,
                                 page_data |-> page_data,
                                 frame_index |-> it.current_frame_index],
                      it |-> [it EXCEPT !.current_checksum = c2,
                                        !.current_frame_index = @ + 1]]

\* a mutant of emit_commit: the commit index is not incremented
emit_commit_same_index(it, db_size) ==
    [ret |-> [tag |-> "Commit",
              commit |-> [index |-> it.current_commit_index,
                          frames |-> it.pending_frames,
                          db_size |-> db_size]],
     it |-> [it EXCEPT !.pending_frames = <<>>]]

\* the commit arm of CommitIterator::next: the pending frames leave as a commit
emit_commit(it, db_size) ==
    [ret |-> [tag |-> "Commit",
              commit |-> [index |-> it.current_commit_index,
                          frames |-> it.pending_frames,
                          db_size |-> db_size]],
     it |-> [it EXCEPT !.pending_frames = <<>>,
                       !.current_commit_index = @ + 1]]

RECURSIVE next_loop(_, _)
\* the loop of CommitIterator::next
next_loop(it, file) ==
    LET r == read_frame(it, file) IN
    CASE r.tag = "Some" ->
            LET pushed == [r.it EXCEPT !.pending_frames = Append(@, r.frame)] IN
            IF is_commit(r.frame.header)
            THEN emit_commit(pushed, r.frame.header.db_size_after_commit)
            ELSE next_loop(pushed, file)
      [] r.tag = "None" ->
            [ret |-> [tag |-> "None"], it |-> [r.it EXCEPT !.finished = TRUE]]
      [] r.tag = "Err" ->
            [ret |-> [tag |-> "Err", err |-> r.err], it |-> [r.it EXCEPT !.finished = TRUE]]

\* a mutant of next: the finished flag is not consulted
next_ignoring_finished(it, file) == next_loop(it, file)

\* CommitIterator::next
next(it, file) ==
    IF it.finished THEN [ret |-> [tag |-> "None"], it |-> it]
    ELSE next_loop(it, file)

----------------------------------------------------------------------------
(* db/page.rs and validator/page_cache.rs *)

\* PageReader::new
PageReader_new(file, page_size, page_count) ==
    [page_size |-> page_size, page_count |-> page_count, file_size |-> Len(file)]

\* PageReader::read_page
read_page(reader, file, page_num) ==
    IF page_num = 0 THEN [ok |-> FALSE, err |-> [kind |-> "PageNotFound", page_num |-> page_num]]
    ELSE LET offset == (page_num - 1) * reader.page_size
             end_offset == offset + reader.page_size
         IN  \* a page number of 2^31 or more, written as the negative i64 it
             \* was cast from, lies beyond the end of every file of the model
             IF page_num < 0 \/ end_offset > reader.file_size
             THEN [ok |-> FALSE, err |-> [kind |-> "PageNotFound", page_num |-> page_num]]
             ELSE [ok |-> TRUE, page |-> Slice(file, offset, end_offset)]

\* PageCache::new
PageCache_new(file, page_size, page_count) ==
    [page_size |-> page_size,
     db_page_count |-> page_count,
     overlay |-> <<>>,
     page_reader |-> PageReader_new(file, page_size, page_count)]

\* HashMap::insert on a map kept as a function
MapInsert(m, k, v) == [x \in (DOMAIN m) \cup {k} |-> IF x = k THEN v ELSE m[x]]

\* a mutant of get_page: the error of read_page is handed on as it is
get_page_surfacing(pc, file, page_num) ==
    IF page_num \in DOMAIN pc.overlay THEN [ok |-> TRUE, page |-> pc.overlay[page_num][1]]
    ELSE read_page(pc.page_reader, file, page_num)

\* PageCache::get_page
get_page(pc, file, page_num) ==
    IF page_num \in DOMAIN pc.overlay THEN [ok |-> TRUE, page |-> pc.overlay[page_num][1]]
    ELSE LET r == read_page(pc.page_reader, file, page_num) IN
         IF r.ok THEN r
         ELSE IF r.err.kind = "PageNotFound"
              THEN [ok |-> TRUE, page |-> [i \in 1..pc.page_size |-> 0]]
              ELSE r

\* a mutant of get_page_self: a page read from the base file, or zero-filled
\* in its place, is kept in the overlay
get_page_self_kept(pc, file, page_num) ==
    IF page_num \in DOMAIN pc.overlay THEN pc
    ELSE LET r == get_page(pc, file, page_num) IN
         IF r.ok THEN [pc EXCEPT !.overlay = MapInsert(@, page_num, <<r.page, 0>>)] ELSE pc

\* PageCache::get_page takes &mut self: the cache after the call, no field
\* of which is assigned
get_page_self(pc, file, page_num) == pc

RECURSIVE get_pages_self(_, _, _, _)
\* the cache after get_page was called for each of the pages from the i-th on
get_pages_self(pc, file, pages, i) ==
    IF i > Len(pages) THEN pc
    ELSE get_pages_self(get_page_self(pc, file, pages[i]), file, pages, i + 1)

\* a mutant of get_frame_index: no page is found in the overlay
get_frame_index_absent(pc, page_num) == <<>>

\* PageCache::get_frame_index: <<frame_idx>> for Some(frame_idx), <<>> for None
get_frame_index(pc, page_num) ==
    IF page_num \in DOMAIN pc.overlay THEN <<pc.overlay[page_num][2]>> ELSE <<>>

RECURSIVE ApplyFrames(_, _, _)
\* the loop of PageCache::apply_commit from frame i on
ApplyFrames(overlay, frames, i) ==
    IF i > Len(frames) THEN overlay
    ELSE ApplyFrames(MapInsert(overlay, frames[i].header.page_number,
                               <<frames[i].page_data, frames[i].frame_index>>),
                     frames, i + 1)

RECURSIVE KeepFirstFrames(_, _, _)
KeepFirstFrames(overlay, frames, i) ==
    IF i > Len(frames) THEN overlay
    ELSE KeepFirstFrames(IF frames[i].header.page_number \in DOMAIN overlay THEN overlay
                         ELSE MapInsert(overlay, frames[i].header.page_number,
                                        <<frames[i].page_data, frames[i].frame_index>>),
                         frames, i + 1)

\* a mutant of apply_commit: a page already in the overlay keeps its entry
apply_commit_keep_first(pc, commit) ==
    [pc EXCEPT !.overlay = KeepFirstFrames(@, commit.frames, 1)]

\* PageCache::apply_commit
apply_commit(pc, commit) ==
    [pc EXCEPT !.overlay = ApplyFrames(@, commit.frames, 1)]

\* self.overlay.keys().max().copied().unwrap_or(0)
max_overlay(pc) ==
    IF DOMAIN pc.overlay = {} THEN 0
    ELSE CHOOSE k \in DOMAIN pc.overlay : \A j \in DOMAIN pc.overlay : j <= k

\* a mutant of effective_page_count: the largest page of the overlay when
\* there is one
effective_page_count_overlay(pc) ==
    IF DOMAIN pc.overlay = {} THEN pc.db_page_count ELSE max_overlay(pc)

\* PageCache::effective_page_count
effective_page_count(pc) ==
    IF pc.db_page_count >= max_overlay(pc) THEN pc.db_page_count ELSE max_overlay(pc)

----------------------------------------------------------------------------
(* btree/cell.rs and btree/page.rs.  A Result is a record with the field   *)
(* ok; an Option is a sequence of at most one element.  A u64 is an        *)
(* integer: the pages the model enumerates keep every varint below 2^31.   *)

\* scans stop after this many pages popped off the stack (the pages the
\* model enumerates form trees far smaller)
MaxPops == 6

RECURSIVE VarintLoop(_, _, _)
\* the loop of parse_varint at the byte of 0-based index i
VarintLoop(data, i, value) ==
    IF i >= Min(Len(data), 9) THEN [value |-> value, bytes_read |-> i]
    ELSE IF i = 8 THEN [value |-> value * 256 + data[i + 1], bytes_read |-> 9]
    ELSE LET v == value * 128 + (data[i + 1] % 128) IN
         IF data[i + 1] < 128 THEN [value |-> v, bytes_read |-> i + 1]
         ELSE VarintLoop(data, i + 1, v)

\* parse_varint
parse_varint(data) ==
    IF Len(data) = 0 THEN [ok |-> FALSE, err |-> [kind |-> "UnexpectedEof"]]
    ELSE LET r == VarintLoop(data, 0, 0) IN
         [ok |-> TRUE, value |-> r.value, bytes_read |-> r.bytes_read]

\* The same function with the u64 held as its 64 bits, the highest first,
\* for the values that the integers of the model cannot hold.

\* the lowest k bits of a byte, the highest first
BitsOf(byte, k) == [i \in 1..k |-> (byte \div (2 ^ (k - i))) % 2]

\* (value << k) | low, where low is k bits
ShiftIn(value, k, low) == SubSeq(value, k + 1, 64) \o low

U64Zero == [i \in 1..64 |-> 0]

RECURSIVE VarintLoop64_ninth_seven(_, _, _)
\* a mutant of VarintLoop64: the ninth byte gives seven bits like the others
VarintLoop64_ninth_seven(data, i, value) ==
    IF i >= Min(Len(data), 9) THEN [value |-> value, bytes_read |-> i]
    ELSE LET v == ShiftIn(value, 7, BitsOf(data[i + 1], 7)) IN
         IF data[i + 1] < 128 \/ i = 8 THEN [value |-> v, bytes_read |-> i + 1]
         ELSE VarintLoop64_ninth_seven(data, i + 1, v)

RECURSIVE VarintLoop64(_, _, _)
\* the loop of parse_varint at the byte of 0-based index i
VarintLoop64(data, i, value) ==
    IF i >= Min(Len(data), 9) THEN [value |-> value, bytes_read |-> i]
    ELSE IF i = 8 THEN [value |-> ShiftIn(value, 8, BitsOf(data[i + 1], 8)), bytes_read |-> 9]
    ELSE LET v == ShiftIn(value, 7, BitsOf(data[i + 1], 7)) IN
         IF data[i + 1] < 128 THEN [value |-> v, bytes_read |-> i + 1]
         ELSE VarintLoop64(data, i + 1, v)

\* parse_varint
parse_varint64(data) ==
    IF Len(data) = 0 THEN [ok |-> FALSE, err |-> [kind |-> "UnexpectedEof"]]
    ELSE LET r == VarintLoop64(data, 0, U64Zero) IN
         [ok |-> TRUE, value |-> r.value, bytes_read |-> r.bytes_read]

\* serial_type_size of cell.rs
serial_type_size(st) ==
    CASE st \in 0..4 -> st
      [] st = 5 -> 6
      [] st \in {6, 7} -> 8
      [] st \in 8..11 -> 0
      [] st >= 12 /\ st % 2 = 0 -> (st - 12) \div 2
      [] st >= 13 /\ st % 2 = 1 -> (st - 13) \div 2
      [] OTHER -> 0

RECURSIVE SerialTypesLoop(_, _, _, _)
\* the loop that decodes the serial types of a record header from offset on
SerialTypesLoop(data, offset, header_size, serial_types) ==
    IF offset >= header_size THEN [ok |-> TRUE, serial_types |-> serial_types]
    ELSE LET r == parse_varint(Slice(data, offset, Len(data))) IN
         IF ~r.ok THEN r
         ELSE SerialTypesLoop(data, offset + r.bytes_read, header_size,
                              Append(serial_types, r.value))

\* parse_record_header after the loop over the serial types returned r
record_header_of(header_size, r) ==
    IF ~r.ok THEN r
    ELSE [ok |-> TRUE, serial_types |-> r.serial_types, header_size |-> header_size]

\* parse_record_header after the varint of the header size is read as h
record_header_from(data, h) ==
    IF h.value > Len(data) THEN [ok |-> FALSE, err |-> [kind |-> "UnexpectedEof"]]
    ELSE record_header_of(h.value, SerialTypesLoop(data, h.bytes_read, h.value, <<>>))

\* parse_record_header
parse_record_header(data) ==
    IF Len(data) = 0 THEN [ok |-> FALSE, err |-> [kind |-> "UnexpectedEof"]]
    ELSE record_header_from(data, parse_varint(data))

RECURSIVE SumSizes(_, _)
\* the sum of serial_type_size over the first n serial types
SumSizes(serial_types, n) ==
    IF n = 0 THEN 0 ELSE SumSizes(serial_types, n - 1) + serial_type_size(serial_types[n])

\* extract_index_key once the end of the key is known
index_key_until(payload, key_end) ==
    IF key_end > Len(payload) THEN [ok |-> FALSE, err |-> [kind |-> "UnexpectedEof"]]
    ELSE [ok |-> TRUE, key |-> [raw |-> Slice(payload, 0, key_end)]]

\* extract_index_key after parse_record_header returned r: the key is the
\* record without its last column, or the whole record of a single column
index_key_of(payload, r) ==
    IF ~r.ok THEN r
    ELSE IF r.serial_types = <<>> THEN [ok |-> TRUE, key |-> [raw |-> <<>>]]
    ELSE index_key_until(payload,
             r.header_size + SumSizes(r.serial_types,
                                      IF Len(r.serial_types) > 1
                                      THEN Len(r.serial_types) - 1
                                      ELSE Len(r.serial_types)))

\* extract_index_key: the raw bytes of the key
extract_index_key(payload) == index_key_of(payload, parse_record_header(payload))

\* BigEndian::read_u16
ReadU16BE(data, off) == data[off + 1] * 256 + data[off + 2]

\* a mutant of from_byte: the zero byte of a page that was never written
\* is read as a table leaf, which a page of zeros makes empty
from_byte_zero_leaf(byte) ==
    CASE byte = 2 -> <<"IndexInterior">>
      [] byte = 5 -> <<"TableInterior">>
      [] byte = 10 -> <<"IndexLeaf">>
      [] byte \in {0, 13} -> <<"TableLeaf">>
      [] OTHER -> <<>>

\* BTreePageType::from_byte
from_byte(byte) ==
    CASE byte = 2 -> <<"IndexInterior">>
      [] byte = 5 -> <<"TableInterior">>
      [] byte = 10 -> <<"IndexLeaf">>
      [] byte = 13 -> <<"TableLeaf">>
      [] OTHER -> <<>>

\* BTreePageType::is_interior
is_interior(page_type) == page_type \in {"TableInterior", "IndexInterior"}

\* BTreePageHeader::parse
BTreePageHeader_parse(data, page_num) ==
    LET offset == IF page_num = 1 THEN 100 ELSE 0 IN
    IF Len(data) < offset + 8 THEN [ok |-> FALSE, err |-> [kind |-> "UnexpectedEof"]]
    ELSE LET page_type_byte == data[offset + 1]
             page_type == from_byte(page_type_byte)
         IN
         IF page_type = <<>>
         THEN [ok |-> FALSE,
               err |-> [kind |-> "InvalidPageType", byte |-> page_type_byte,
                        page_num |-> page_num]]
         ELSE IF is_interior(page_type[1]) /\ Len(data) < offset + 12
         THEN [ok |-> FALSE, err |-> [kind |-> "UnexpectedEof"]]
         ELSE [ok |-> TRUE,
               header |-> [page_type |-> page_type[1],
                           first_freeblock |-> ReadU16BE(data, offset + 1),
                           cell_count |-> ReadU16BE(data, offset + 3),
                           cell_content_offset |-> ReadU16BE(data, offset + 5),
                           fragmented_bytes |-> data[offset + 8],
                           right_child |-> IF is_interior(page_type[1])
                                           THEN <<ReadU32BE(data, offset + 8)>>
                                           ELSE <<>>],
               header_size |-> IF is_interior(page_type[1]) THEN offset + 12
                               ELSE offset + 8]

\* BTreePageHeader::get_cell_pointers: the loop fails at the first pointer
\* that ends past the page, which happens if and only if the last one does
get_cell_pointers(header, data, page_num) ==
    LET header_offset == IF page_num = 1 THEN 100 ELSE 0
        header_size == IF is_interior(header.page_type) THEN 12 ELSE 8
        pointers_start == header_offset + header_size
    IN  IF header.cell_count > 0
           /\ pointers_start + (header.cell_count - 1) * 2 + 2 > Len(data)
        THEN [ok |-> FALSE,
              err |-> [kind |-> "CellPointerOutOfBounds", page_num |-> page_num]]
        ELSE [ok |-> TRUE,
              pointers |-> [i \in 1..header.cell_count |->
                               ReadU16BE(data, pointers_start + (i - 1) * 2)]]

----------------------------------------------------------------------------
(* btree/scanner.rs.  A String is the sequence of its bytes.  A scanner    *)
(* operation takes the page cache and the base file it reads through.      *)

\* serial_type_content_size of scanner.rs
serial_type_content_size(st) ==
    CASE st \in 0..4 -> st
      [] st = 5 -> 6
      [] st \in {6, 7} -> 8
      [] st \in {8, 9} -> 0
      [] st >= 12 /\ st % 2 = 0 -> (st - 12) \div 2
      [] st >= 13 /\ st % 2 = 1 -> (st - 13) \div 2
      [] OTHER -> 0

RECURSIVE Utf8Valid(_, _)
\* String::from_utf8 accepts the bytes from the 0-based index i on
Utf8Valid(b, i) ==
    LET n == Len(b) - i
        Cont(k) == k <= n /\ b[i + k] \in 128..191
        b1 == b[i + 1]
    IN  \/ n = 0
        \/ /\ n > 0
           /\ \/ b1 < 128 /\ Utf8Valid(b, i + 1)
              \/ b1 \in 194..223 /\ Cont(2) /\ Utf8Valid(b, i + 2)
              \/ /\ b1 \in 224..239 /\ Cont(2) /\ Cont(3)
                 /\ b1 = 224 => b[i + 2] >= 160
                 /\ b1 = 237 => b[i + 2] <= 159
                 /\ Utf8Valid(b, i + 3)
              \/ /\ b1 \in 240..244 /\ Cont(2) /\ Cont(3) /\ Cont(4)
                 /\ b1 = 240 => b[i + 2] >= 144
                 /\ b1 = 244 => b[i + 2] <= 143
                 /\ Utf8Valid(b, i + 4)

\* String::from_utf8(..).ok()
from_utf8(bytes) == IF Utf8Valid(bytes, 0) THEN <<bytes>> ELSE <<>>

RECURSIVE SumContentSizes(_, _)
\* the sum of serial_type_content_size over the first n serial types
SumContentSizes(serial_types, n) ==
    IF n = 0 THEN 0
    ELSE SumContentSizes(serial_types, n - 1) + serial_type_content_size(serial_types[n])

\* the column offsets of parse_sqlite_master_cell: where column col (0-based) starts
ColumnOffset(serial_types, header_size, col) ==
    header_size + SumContentSizes(serial_types, col)

\* read_text_column (col is 0-based); it never fails
read_text_column(payload, serial_types, header_size, col) ==
    IF col >= Len(serial_types) THEN <<>>
    ELSE LET st == serial_types[col + 1] IN
         IF st < 13 \/ st % 2 = 0 THEN <<>>
         ELSE LET size == (st - 13) \div 2
                  offset == ColumnOffset(serial_types, header_size, col)
              IN  IF offset + size > Len(payload) THEN <<>>
                  ELSE from_utf8(Slice(payload, offset, offset + size))

RECURSIVE UnsignedBE(_, _, _)
\* the big-endian value of n bytes from offset on
UnsignedBE(data, offset, n) ==
    IF n = 0 THEN 0 ELSE UnsignedBE(data, offset, n - 1) * 256 + data[offset + n]

RECURSIVE NegativeBE(_, _, _)
\* the big-endian value of n bytes from offset on, minus 256^n
NegativeBE(data, offset, n) ==
    IF n = 1 THEN data[offset + 1] - 256
    ELSE NegativeBE(data, offset, n - 1) * 256 + data[offset + n]

\* the two's-complement value of n big-endian bytes from offset on
SignedBE(data, offset, n) ==
    IF data[offset + 1] < 128 THEN UnsignedBE(data, offset, n)
    ELSE NegativeBE(data, offset, n)

\* read_int_column (col is 0-based); it never fails.  The three bytes of
\* serial type 3 are combined without sign extension; the six bytes of serial
\* type 5 are laid after two zero bytes and the whole is shifted right by 16
\* bits, which leaves the first four bytes, unsigned.
read_int_column(payload, serial_types, header_size, col) ==
    IF col >= Len(serial_types) THEN <<>>
    ELSE LET st == serial_types[col + 1]
             offset == ColumnOffset(serial_types, header_size, col)
         IN  CASE st = 0 -> <<>>
               [] st = 1 -> IF offset >= Len(payload) THEN <<>>
                            ELSE <<SignedBE(payload, offset, 1)>>
               [] st = 2 -> IF offset + 2 > Len(payload) THEN <<>>
                            ELSE <<SignedBE(payload, offset, 2)>>
               [] st = 3 -> IF offset + 3 > Len(payload) THEN <<>>
                            ELSE <<UnsignedBE(payload, offset, 3)>>
               [] st = 4 -> IF offset + 4 > Len(payload) THEN <<>>
                            ELSE <<SignedBE(payload, offset, 4)>>
               [] st = 5 -> IF offset + 6 > Len(payload) THEN <<>>
                            ELSE <<UnsignedBE(payload, offset, 4)>>
               [] st = 6 -> IF offset + 8 > Len(payload) THEN <<>>
                            ELSE <<SignedBE(payload, offset, 8)>>
               [] st = 8 -> <<0>>
               [] st = 9 -> <<1>>
               [] OTHER -> <<>>

\* the bytes of "table", "index", "sqlite_autoindex_" and "UNIQUE"
StrTable == <<116, 97, 98, 108, 101>>
StrIndex == <<105, 110, 100, 101, 120>>
StrAutoindex ==
    <<115, 113, 108, 105, 116, 101, 95, 97, 117, 116, 111, 105, 110, 100, 101, 120, 95>>
StrUnique == <<85, 78, 73, 81, 85, 69>>

\* str::starts_with
starts_with(str, prefix) ==
    Len(str) >= Len(prefix) /\ SubSeq(str, 1, Len(prefix)) = prefix

\* str::contains
contains(str, pat) ==
    \E i \in 0..(Len(str) - Len(pat)) : SubSeq(str, i + 1, i + Len(pat)) = pat

RECURSIVE to_uppercase_from(_, _)
\* str::to_uppercase from byte i of the UTF-8 text on: an ASCII letter maps
\* to its capital, and so does the dotless i (U+0131, the bytes C4 B1),
\* whose capital is the ASCII letter I; the texts the model enumerates hold
\* no other letter
to_uppercase_from(str, i) ==
    IF i > Len(str) THEN <<>>
    ELSE IF i < Len(str) /\ str[i] = 196 /\ str[i + 1] = 177
    THEN <<73>> \o to_uppercase_from(str, i + 2)
    ELSE <<(IF str[i] \in 97..122 THEN str[i] - 32 ELSE str[i])>>
         \o to_uppercase_from(str, i + 1)

\* a mutant of to_uppercase: the text is left as it is
to_uppercase_unchanged(str) == str

\* str::to_uppercase
to_uppercase(str) == to_uppercase_from(str, 1)

\* the end of parse_sqlite_master_cell: the BTreeInfo of the decoded columns.
\* A rootpage is cast to u32; the model writes a u32 of 2^31 or more as the
\* negative i64 it was cast from.
master_cell_info(type_col, name_col, tbl_name_col, rootpage, sql_col) ==
    IF type_col # <<>> /\ name_col # <<>> /\ rootpage # <<>>
       /\ rootpage[1] # 0 /\ type_col[1] \in {StrTable, StrIndex}
    THEN [ok |-> TRUE,
          info |-> <<[root_page |-> rootpage[1],
                      name |-> name_col,
                      tbl_name |-> tbl_name_col,
                      sql |-> sql_col,
                      is_table |-> (type_col[1] = StrTable),
                      is_unique |->
                          IF type_col[1] = StrIndex
                          THEN IF starts_with(name_col[1], StrAutoindex) THEN TRUE
                               ELSE IF sql_col # <<>>
                                    THEN contains(to_uppercase(sql_col[1]), StrUnique)
                                    ELSE FALSE
                          ELSE FALSE]>>]
    ELSE [ok |-> TRUE, info |-> <<>>]

\* parse_sqlite_master_cell from the decoded serial types on
master_cell_columns(payload, header_size, st) ==
    IF ~st.ok THEN st
    ELSE IF Len(st.serial_types) < 4 THEN [ok |-> TRUE, info |-> <<>>]
    ELSE master_cell_info(read_text_column(payload, st.serial_types, header_size, 0),
                          read_text_column(payload, st.serial_types, header_size, 1),
                          read_text_column(payload, st.serial_types, header_size, 2),
                          read_int_column(payload, st.serial_types, header_size, 3),
                          read_text_column(payload, st.serial_types, header_size, 4))

\* parse_sqlite_master_cell from the payload on
master_cell_record(payload) ==
    LET hs == parse_varint(payload) IN
    IF ~hs.ok THEN hs
    ELSE IF hs.value > Len(payload) THEN [ok |-> TRUE, info |-> <<>>]
    ELSE master_cell_columns(payload, hs.value,
                             SerialTypesLoop(payload, hs.bytes_read, hs.value, <<>>))

\* parse_sqlite_master_cell: Ok(Some(info)) is info |-> <<info>>, Ok(None) is
\* info |-> <<>>
parse_sqlite_master_cell(page_data, cell_offset) ==
    IF cell_offset >= Len(page_data)
    THEN [ok |-> FALSE, err |-> [kind |-> "CellPointerOutOfBounds", page_num |-> 1]]
    ELSE
    LET cell_data == Slice(page_data, cell_offset, Len(page_data))
        ps == parse_varint(cell_data)
        rid == parse_varint(Slice(cell_data, ps.bytes_read, Len(cell_data)))
        offset == ps.bytes_read + rid.bytes_read
    IN
    IF ~rid.ok THEN rid
    ELSE IF offset + ps.value > Len(cell_data) THEN [ok |-> TRUE, info |-> <<>>]
    ELSE master_cell_record(Slice(cell_data, offset, offset + ps.value))

\* the scan ran out of pops: the loop of the source has not ended
OutOfPops == [ok |-> FALSE, err |-> [kind |-> "OutOfPops"]]

\* the body of the cell loop of scan_sqlite_master: the info of a cell that
\* parsed to Ok(Some(info)) is pushed
PushInfo(btrees, r) ==
    IF r.ok /\ r.info # <<>> THEN Append(btrees, r.info[1]) ELSE btrees

RECURSIVE MasterCells(_, _, _, _)
\* the cell loop of scan_sqlite_master on a leaf page, from cell i on: a cell
\* that fails to parse is passed over
MasterCells(page_data, pointers, i, btrees) ==
    IF i > Len(pointers) THEN btrees
    ELSE MasterCells(page_data, pointers, i + 1,
                     PushInfo(btrees, parse_sqlite_master_cell(page_data, pointers[i])))

RECURSIVE PushChildren(_, _, _, _, _)
\* the cell loop of an interior page, from cell i on: the left child of every
\* cell whose first `slack` bytes lie inside the page is pushed
PushChildren(page_data, pointers, i, stack, slack) ==
    IF i > Len(pointers) THEN stack
    ELSE PushChildren(page_data, pointers, i + 1,
                      IF pointers[i] + slack <= Len(page_data)
                      THEN Append(stack, ReadU32BE(page_data, pointers[i]))
                      ELSE stack,
                      slack)

\* a mutant of PushInterior: the right child is not pushed
PushInterior_left_only(header, page_data, pointers, stack) ==
    PushChildren(page_data, pointers, 1, stack, 4)

\* the interior arm of the scans: children pushed, the right child last
PushInterior(header, page_data, pointers, stack) ==
    PushChildren(page_data, pointers, 1, stack, 4) \o header.right_child

RECURSIVE scan_sqlite_master(_, _, _, _, _)
\* scan_sqlite_master from the state (stack, btrees) of its loop on
scan_sqlite_master(pc, file, stack, btrees, pops) ==
    IF stack = <<>> THEN [ok |-> TRUE, btrees |-> btrees]
    ELSE IF pops = 0 THEN OutOfPops
    ELSE
    LET page_num == stack[Len(stack)]
        rest == SubSeq(stack, 1, Len(stack) - 1)
        page == get_page(pc, file, page_num)
    IN
    IF ~page.ok THEN page
    ELSE
    LET h == BTreePageHeader_parse(page.page, page_num) IN
    IF ~h.ok THEN h
    ELSE IF h.header.page_type \notin {"TableLeaf", "TableInterior"}
    THEN scan_sqlite_master(pc, file, rest, btrees, pops - 1)
    ELSE
    LET ptrs == get_cell_pointers(h.header, page.page, page_num) IN
    IF ~ptrs.ok THEN ptrs
    ELSE IF h.header.page_type = "TableLeaf"
    THEN scan_sqlite_master(pc, file, rest,
                            MasterCells(page.page, ptrs.pointers, 1, btrees), pops - 1)
    ELSE scan_sqlite_master(pc, file,
                            PushInterior(h.header, page.page, ptrs.pointers, rest),
                            btrees, pops - 1)

\* BTreeScanner::discover_btrees
discover_btrees(pc, file) == scan_sqlite_master(pc, file, <<1>>, <<>>, MaxPops)

\* RowidLocation
RowidLocation(page_num, cell_idx, frame_index) ==
    [page_number |-> page_num, cell_index |-> cell_idx, frame_index |-> frame_index]

RECURSIVE TableLeafCells(_, _, _, _, _)
\* the cell loop of collect_table_rowids on a leaf page, from cell i on
TableLeafCells(page_data, pointers, i, page_num, frame_index) ==
    IF i > Len(pointers) THEN [ok |-> TRUE, entries |-> <<>>]
    ELSE IF pointers[i] >= Len(page_data)
    THEN TableLeafCells(page_data, pointers, i + 1, page_num, frame_index)
    ELSE
    LET cell_data == Slice(page_data, pointers[i], Len(page_data))
        ps == parse_varint(cell_data)
        rid == parse_varint(Slice(cell_data, ps.bytes_read, Len(cell_data)))
    IN
    IF ~rid.ok THEN rid
    ELSE LET more == TableLeafCells(page_data, pointers, i + 1, page_num, frame_index) IN
         IF ~more.ok THEN more
         ELSE [ok |-> TRUE,
               entries |-> <<(<<rid.value, RowidLocation(page_num, i - 1, frame_index)>>)>>
                           \o more.entries]

RECURSIVE collect_table_rowids_loop(_, _, _, _, _)
\* collect_table_rowids from the state (stack, rowids) of its loop on
collect_table_rowids_loop(pc, file, stack, rowids, pops) ==
    IF stack = <<>> THEN [ok |-> TRUE, entries |-> rowids]
    ELSE IF pops = 0 THEN OutOfPops
    ELSE
    LET page_num == stack[Len(stack)]
        rest == SubSeq(stack, 1, Len(stack) - 1)
        frame_index == get_frame_index(pc, page_num)
        page == get_page(pc, file, page_num)
    IN
    IF ~page.ok THEN page
    ELSE
    LET h == BTreePageHeader_parse(page.page, page_num) IN
    IF ~h.ok THEN h
    ELSE IF h.header.page_type \notin {"TableLeaf", "TableInterior"}
    THEN collect_table_rowids_loop(pc, file, rest, rowids, pops - 1)
    ELSE
    LET ptrs == get_cell_pointers(h.header, page.page, page_num) IN
    IF ~ptrs.ok THEN ptrs
    ELSE IF h.header.page_type = "TableLeaf"
    THEN LET cells == TableLeafCells(page.page, ptrs.pointers, 1, page_num, frame_index) IN
         IF ~cells.ok THEN cells
         ELSE collect_table_rowids_loop(pc, file, rest, rowids \o cells.entries, pops - 1)
    ELSE collect_table_rowids_loop(pc, file,
                                   PushInterior(h.header, page.page, ptrs.pointers, rest),
                                   rowids, pops - 1)

\* BTreeScanner::collect_table_rowids
collect_table_rowids(pc, file, root_page) ==
    collect_table_rowids_loop(pc, file, <<root_page>>, <<>>, MaxPops)

RECURSIVE IndexLeafCells(_, _, _, _, _)
\* the cell loop of collect_index_keys on a leaf page, from cell i on
IndexLeafCells(page_data, pointers, i, page_num, frame_index) ==
    IF i > Len(pointers) THEN <<>>
    ELSE
    LET more == IndexLeafCells(page_data, pointers, i + 1, page_num, frame_index) IN
    IF pointers[i] >= Len(page_data) THEN more
    ELSE
    LET cell_data == Slice(page_data, pointers[i], Len(page_data))
        ps == parse_varint(cell_data)
    IN
    IF ps.bytes_read + ps.value > Len(cell_data) THEN more
    ELSE LET key == extract_index_key(Slice(cell_data, ps.bytes_read,
                                            ps.bytes_read + ps.value))
         IN  IF ~key.ok THEN more
             ELSE <<(<<key.key, RowidLocation(page_num, i - 1, frame_index)>>)>> \o more

RECURSIVE collect_index_keys_loop(_, _, _, _, _)
\* collect_index_keys from the state (stack, keys) of its loop on
collect_index_keys_loop(pc, file, stack, keys, pops) ==
    IF stack = <<>> THEN [ok |-> TRUE, entries |-> keys]
    ELSE IF pops = 0 THEN OutOfPops
    ELSE
    LET page_num == stack[Len(stack)]
        rest == SubSeq(stack, 1, Len(stack) - 1)
        frame_index == get_frame_index(pc, page_num)
        page == get_page(pc, file, page_num)
    IN
    IF ~page.ok THEN page
    ELSE
    LET h == BTreePageHeader_parse(page.page, page_num) IN
    IF ~h.ok THEN h
    ELSE IF h.header.page_type \notin {"IndexLeaf", "IndexInterior"}
    THEN collect_index_keys_loop(pc, file, rest, keys, pops - 1)
    ELSE
    LET ptrs == get_cell_pointers(h.header, page.page, page_num) IN
    IF ~ptrs.ok THEN ptrs
    ELSE IF h.header.page_type = "IndexLeaf"
    THEN collect_index_keys_loop(pc, file, rest,
             keys \o IndexLeafCells(page.page, ptrs.pointers, 1, page_num, frame_index),
             pops - 1)
    ELSE collect_index_keys_loop(pc, file,
                                 PushInterior(h.header, page.page, ptrs.pointers, rest),
                                 keys, pops - 1)

\* BTreeScanner::collect_index_keys
collect_index_keys(pc, file, root_page) ==
    collect_index_keys_loop(pc, file, <<root_page>>, <<>>, MaxPops)

----------------------------------------------------------------------------
(* db/header.rs, validator/duplicate.rs and the steps of lib.rs validate.  *)

\* SQLITE_MAGIC: "SQLite format 3\0"
SQLITE_MAGIC == <<83, 81, 76, 105, 116, 101, 32, 102, 111, 114, 109, 97, 116, 32, 51, 0>>

\* a mutant of is_power_of_two: every value passes
is_power_of_two_always(n) == TRUE

\* u32::is_power_of_two for a value of at most 65536
is_power_of_two(n) == n \in {2 ^ k : k \in 0..16}

\* DbHeader::parse
DbHeader_parse(data) ==
    IF Len(data) < 100 THEN [ok |-> FALSE, err |-> [kind |-> "UnexpectedEof"]]
    ELSE IF Slice(data, 0, 16) # SQLITE_MAGIC
    THEN [ok |-> FALSE, err |-> [kind |-> "InvalidDbMagic"]]
    ELSE LET raw_page_size == ReadU16BE(data, 16)
             page_size == IF raw_page_size = 1 THEN 65536 ELSE raw_page_size
         IN  IF ~is_power_of_two(page_size) \/ page_size < 512 \/ page_size > 65536
             THEN [ok |-> FALSE, err |-> [kind |-> "InvalidPageSize", size |-> page_size]]
             ELSE [ok |-> TRUE,
                   page_size |-> page_size,
                   page_count |-> ReadU32BE(data, 28),
                   schema_cookie |-> ReadU32BE(data, 40),
                   text_encoding |-> ReadU32BE(data, 56)]

\* DbHeader::from_file: read_exact of 100 bytes, then parse
DbHeader_from_file(file) ==
    IF Len(file) < 100 THEN [ok |-> FALSE, err |-> [kind |-> "Io"]]
    ELSE DbHeader_parse(Slice(file, 0, 100))

\* find_duplicates: the entries of the returned Vec, whose order is that of
\* a HashMap iteration and so is not modelled
find_duplicates(entries) ==
    LET keys == {entries[i][1] : i \in DOMAIN entries}
        Places(k) == {i \in DOMAIN entries : entries[i][1] = k}
        Nth(k, n) == CHOOSE i \in Places(k) : Cardinality({j \in Places(k) : j < i}) = n - 1
    IN  {[key |-> k,
          locations |-> [n \in 1..Cardinality(Places(k)) |-> entries[Nth(k, n)][2]]] :
            k \in {x \in keys : Cardinality(Places(x)) > 1}}

\* DuplicateReport::has_duplicates
has_duplicates(report) == report.rowid_duplicates # {} \/ report.key_duplicates # {}

\* scan_table_for_duplicates
scan_table_for_duplicates(cache, file, btree, commit_index) ==
    LET rowids == collect_table_rowids(cache, file, btree.root_page) IN
    IF ~rowids.ok THEN rowids
    ELSE [ok |-> TRUE,
          report |-> [commit_index |-> commit_index,
                      btree_root |-> btree.root_page,
                      name |-> btree.name,
                      duplicate_type |-> "TableRowid",
                      rowid_duplicates |-> find_duplicates(rowids.entries),
                      key_duplicates |-> {}]]

\* scan_index_for_duplicates
scan_index_for_duplicates(cache, file, btree, commit_index) ==
    LET keys == collect_index_keys(cache, file, btree.root_page) IN
    IF ~keys.ok THEN keys
    ELSE [ok |-> TRUE,
          report |-> [commit_index |-> commit_index,
                      btree_root |-> btree.root_page,
                      name |-> btree.name,
                      duplicate_type |-> "IndexKey",
                      rowid_duplicates |-> {},
                      key_duplicates |-> find_duplicates(keys.entries)]]

\* one B-tree of the loop over the discovered B-trees is scanned
scan_btree(cache, file, btree, commit_index) ==
    IF btree.is_table
    THEN scan_table_for_duplicates(cache, file, btree, commit_index)
    ELSE scan_index_for_duplicates(cache, file, btree, commit_index)

\* a mutant of PushReport: the report of every scan is pushed
PushReport_every(reports, report) == Append(reports, report)

\* the report of a scan is pushed if it holds duplicates
PushReport(reports, report) ==
    IF has_duplicates(report) THEN Append(reports, report) ELSE reports

RECURSIVE scan_btrees(_, _, _, _, _, _)
RECURSIVE scan_btrees_from(_, _, _, _, _, _, _)
\* the loop over the discovered B-trees, r being the scan of the i-th
scan_btrees_from(cache, file, btrees, i, commit_index, reports, r) ==
    IF ~r.ok THEN r
    ELSE scan_btrees(cache, file, btrees, i + 1, commit_index, PushReport(reports, r.report))

\* the loop over the discovered B-trees from the i-th on
scan_btrees(cache, file, btrees, i, commit_index, reports) ==
    IF i > Len(btrees) THEN [ok |-> TRUE, reports |-> reports]
    ELSE scan_btrees_from(cache, file, btrees, i, commit_index, reports,
                          scan_btree(cache, file, btrees[i], commit_index))

\* a pass of validate after the discovery of the B-trees
scan_discovered(cache, file, commit_index, reports, btrees) ==
    IF ~btrees.ok THEN btrees
    ELSE scan_btrees(cache, file, btrees.btrees, 1, commit_index, reports)

\* a mutant of scan_state: the B-trees are those the catalog of the base
\* file lists
scan_state_base_catalog(cache, file, commit_index, reports) ==
    scan_discovered(cache, file, commit_index, reports,
                    discover_btrees([cache EXCEPT !.overlay = <<>>], file))

\* a mutant of scan_state: every report is stamped as a report of the base state
scan_state_unstamped(cache, file, commit_index, reports) ==
    scan_discovered(cache, file, <<>>, reports, discover_btrees(cache, file))

\* one pass of validate: the B-trees are discovered and scanned, and the
\* reports that hold duplicates are pushed on all_reports
scan_state(cache, file, commit_index, reports) ==
    scan_discovered(cache, file, commit_index, reports, discover_btrees(cache, file))

\* a mutant of open_wal: the page sizes are not compared
open_wal_any_page_size(file, header) == CommitIterator_new(file)

\* validate opens the WAL and compares the page sizes
open_wal(file, header) ==
    LET commit_iter == CommitIterator_new(file) IN
    IF ~commit_iter.ok THEN commit_iter
    ELSE IF commit_iter.wal_header.page_size # header.page_size
    THEN [ok |-> FALSE,
          err |-> [kind |-> "PageSizeMismatch",
                   db_size |-> header.page_size,
                   wal_size |-> commit_iter.wal_header.page_size]]
    ELSE commit_iter

\* the exit status of main for what validate returned
exit_status(result) ==
    IF result.tag = "Ok"
    THEN IF result.reports = <<>> THEN 0 ELSE 2
    ELSE 1

----------------------------------------------------------------------------
(* btree/scanner.rs collect_index_rowids and the validators of validators/ *)

\* extract_index_rowid: the value of the last column of the record as a
\* signed integer
index_rowid_at(payload, st, offset) ==
    IF st \in {8, 9} THEN [ok |-> TRUE, rowid |-> st - 8]
    ELSE IF st \notin 1..6 THEN [ok |-> FALSE, err |-> [kind |-> "InvalidRecord"]]
    ELSE IF offset + serial_type_size(st) > Len(payload)
    THEN [ok |-> FALSE, err |-> [kind |-> "UnexpectedEof"]]
    ELSE [ok |-> TRUE, rowid |-> SignedBE(payload, offset, serial_type_size(st))]

index_rowid_of(payload, r) ==
    IF ~r.ok THEN r
    ELSE IF r.serial_types = <<>> THEN [ok |-> FALSE, err |-> [kind |-> "InvalidRecord"]]
    ELSE index_rowid_at(payload, r.serial_types[Len(r.serial_types)],
                        r.header_size + SumSizes(r.serial_types, Len(r.serial_types) - 1))

extract_index_rowid(payload) == index_rowid_of(payload, parse_record_header(payload))

\* the rowid of an index leaf cell is pushed if it could be extracted
PushRowid(rowids, r) == IF r.ok THEN Append(rowids, r.rowid) ELSE rowids

\* the payload of an index leaf cell, or <<>> for a cell that is passed over
index_cell_payload(cell_data, ps) ==
    IF ~ps.ok THEN ps
    ELSE IF ps.bytes_read + ps.value > Len(cell_data) THEN [ok |-> TRUE, payload |-> <<>>]
    ELSE [ok |-> TRUE,
          payload |-> <<Slice(cell_data, ps.bytes_read, ps.bytes_read + ps.value)>>]

RECURSIVE IndexLeafRowids(_, _, _, _)
\* a cell of the leaf loop of collect_index_rowids, p being its payload
IndexLeafRowidsFrom(page_data, pointers, i, rowids, p) ==
    IF ~p.ok THEN p
    ELSE IndexLeafRowids(page_data, pointers, i + 1,
                         IF p.payload = <<>> THEN rowids
                         ELSE PushRowid(rowids, extract_index_rowid(p.payload[1])))

\* the cell loop of collect_index_rowids on a leaf page, from cell i on
IndexLeafRowids(page_data, pointers, i, rowids) ==
    IF i > Len(pointers) THEN [ok |-> TRUE, rowids |-> rowids]
    ELSE IF pointers[i] >= Len(page_data)
    THEN IndexLeafRowids(page_data, pointers, i + 1, rowids)
    ELSE IndexLeafRowidsFrom(page_data, pointers, i, rowids,
             index_cell_payload(Slice(page_data, pointers[i], Len(page_data)),
                                parse_varint(Slice(page_data, pointers[i], Len(page_data)))))

RECURSIVE collect_index_rowids_loop(_, _, _, _, _)
\* the leaf arm of collect_index_rowids, cells being what the cell loop returned
collect_index_rowids_leaf(pc, file, rest, pops, cells) ==
    IF ~cells.ok THEN cells
    ELSE collect_index_rowids_loop(pc, file, rest, cells.rowids, pops - 1)

\* collect_index_rowids on a page whose header parsed to h
collect_index_rowids_page(pc, file, rest, rowids, pops, page_num, page_data, header, ptrs) ==
    IF ~ptrs.ok THEN ptrs
    ELSE IF header.page_type = "IndexLeaf"
    THEN collect_index_rowids_leaf(pc, file, rest, pops,
                                   IndexLeafRowids(page_data, ptrs.pointers, 1, rowids))
    ELSE collect_index_rowids_loop(pc, file,
                                   PushInterior(header, page_data, ptrs.pointers, rest),
                                   rowids, pops - 1)

collect_index_rowids_parsed(pc, file, rest, rowids, pops, page_num, page_data, h) ==
    IF ~h.ok THEN h
    ELSE IF h.header.page_type \notin {"IndexLeaf", "IndexInterior"}
    THEN collect_index_rowids_loop(pc, file, rest, rowids, pops - 1)
    ELSE collect_index_rowids_page(pc, file, rest, rowids, pops, page_num, page_data,
                                   h.header, get_cell_pointers(h.header, page_data, page_num))

collect_index_rowids_got(pc, file, rest, rowids, pops, page_num, page) ==
    IF ~page.ok THEN page
    ELSE collect_index_rowids_parsed(pc, file, rest, rowids, pops, page_num, page.page,
                                     BTreePageHeader_parse(page.page, page_num))

\* collect_index_rowids from the state (stack, rowids) of its loop on
collect_index_rowids_loop(pc, file, stack, rowids, pops) ==
    IF stack = <<>> THEN [ok |-> TRUE, rowids |-> rowids]
    ELSE IF pops = 0 THEN OutOfPops
    ELSE collect_index_rowids_got(pc, file, SubSeq(stack, 1, Len(stack) - 1), rowids, pops,
                                  stack[Len(stack)], get_page(pc, file, stack[Len(stack)]))

\* BTreeScanner::collect_index_rowids
collect_index_rowids(pc, file, root_page) ==
    collect_index_rowids_loop(pc, file, <<root_page>>, <<>>, MaxPops)

\* a mutant of is_intra_page: the pages of the locations are not compared
is_intra_page_any_pages(entry) == Len(entry.locations) >= 2

\* DuplicateEntry::is_intra_page
is_intra_page(entry) ==
    IF Len(entry.locations) < 2 THEN FALSE
    ELSE \A i \in DOMAIN entry.locations :
            entry.locations[i].page_number = entry.locations[1].page_number

\* a mutant of find_duplicates: an entry lists the first two occurrences only
duplicate_rowid_find_duplicates_first_two(entries) ==
    LET keys == {entries[i][1] : i \in DOMAIN entries}
        Places(k) == {i \in DOMAIN entries : entries[i][1] = k}
        Nth(k, n) == CHOOSE i \in Places(k) : Cardinality({j \in Places(k) : j < i}) = n - 1
    IN  {[key |-> k, locations |-> [n \in 1..2 |-> entries[Nth(k, n)][2]]] :
            k \in {x \in keys : Cardinality(Places(x)) > 1}}

\* find_duplicates of validators/duplicate_rowid.rs: the entries of the
\* returned Vec, whose order is that of a HashMap iteration and so is not
\* modelled; the locations of an entry are in the order they were pushed
duplicate_rowid_find_duplicates(entries) ==
    LET keys == {entries[i][1] : i \in DOMAIN entries}
        Places(k) == {i \in DOMAIN entries : entries[i][1] = k}
        Nth(k, n) == CHOOSE i \in Places(k) : Cardinality({j \in Places(k) : j < i}) = n - 1
    IN  {[key |-> k,
          locations |-> [n \in 1..Cardinality(Places(k)) |-> entries[Nth(k, n)][2]]] :
            k \in {x \in keys : Cardinality(Places(x)) > 1}}

\* ValidationIssue::duplicate_rowids
ValidationIssue_duplicate_rowids(validator, name, root_page, commit_index, duplicates) ==
    [validator |-> validator,
     severity |-> "Error",
     message |-> [kind |-> "duplicate rowid(s)", count |-> Cardinality(duplicates)],
     location |-> [kind |-> "Table", name |-> name, root_page |-> root_page],
     commit_index |-> commit_index,
     duplicate_details |-> <<[kind |-> "Rowid", entries |-> duplicates]>>]

\* ValidationIssue::duplicate_index_keys
ValidationIssue_duplicate_index_keys(validator, name, root_page, commit_index, duplicates) ==
    [validator |-> validator,
     severity |-> "Error",
     message |-> [kind |-> "duplicate key(s)", count |-> Cardinality(duplicates)],
     location |-> [kind |-> "Index", name |-> name, root_page |-> root_page],
     commit_index |-> commit_index,
     duplicate_details |-> <<[kind |-> "IndexKey", entries |-> duplicates]>>]

\* the end of the loop body of DuplicateRowidValidator::validate: an issue
\* is pushed if the table holds duplicates
push_rowid_issue(issues, btree, commit_index, duplicates) ==
    IF duplicates # {}
    THEN Append(issues, ValidationIssue_duplicate_rowids("duplicate-rowid", btree.name,
                                                         btree.root_page, commit_index,
                                                         duplicates))
    ELSE issues

RECURSIVE duplicate_rowid_loop(_, _, _, _, _, _)
\* the loop body of DuplicateRowidValidator::validate after the rowids of
\* the i-th B-tree were collected
duplicate_rowid_collected(cache, file, btrees, i, commit_index, issues, rowids) ==
    IF ~rowids.ok THEN rowids
    ELSE duplicate_rowid_loop(cache, file, btrees, i + 1, commit_index,
                              push_rowid_issue(issues, btrees[i], commit_index,
                                               duplicate_rowid_find_duplicates(rowids.entries)))

\* the loop of DuplicateRowidValidator::validate from the i-th B-tree on
duplicate_rowid_loop(cache, file, btrees, i, commit_index, issues) ==
    IF i > Len(btrees) THEN [ok |-> TRUE, issues |-> issues]
    ELSE IF ~btrees[i].is_table
    THEN duplicate_rowid_loop(cache, file, btrees, i + 1, commit_index, issues)
    ELSE duplicate_rowid_collected(cache, file, btrees, i, commit_index, issues,
                                   collect_table_rowids(cache, file, btrees[i].root_page))

\* DuplicateRowidValidator::validate after discover_btrees returned r
duplicate_rowid_discovered(cache, file, commit_index, r) ==
    IF ~r.ok THEN r
    ELSE duplicate_rowid_loop(cache, file, r.btrees, 1, commit_index, <<>>)

\* DuplicateRowidValidator::validate
DuplicateRowidValidator_validate(cache, file, commit_index) ==
    duplicate_rowid_discovered(cache, file, commit_index, discover_btrees(cache, file))

\* the end of the loop body of DuplicateIndexKeyValidator::validate
push_index_key_issue(issues, btree, commit_index, duplicates) ==
    IF duplicates # {}
    THEN Append(issues, ValidationIssue_duplicate_index_keys("duplicate-index-key",
                                                             btree.name, btree.root_page,
                                                             commit_index, duplicates))
    ELSE issues

RECURSIVE duplicate_index_key_loop(_, _, _, _, _, _)
\* the loop body of DuplicateIndexKeyValidator::validate after the keys of
\* the i-th B-tree were collected
duplicate_index_key_collected(cache, file, btrees, i, commit_index, issues, keys) ==
    IF ~keys.ok THEN keys
    ELSE duplicate_index_key_loop(cache, file, btrees, i + 1, commit_index,
                                  push_index_key_issue(issues, btrees[i], commit_index,
                                                       duplicate_rowid_find_duplicates(keys.entries)))

\* a mutant of the loop of DuplicateIndexKeyValidator::validate: the
\* indexes that are not unique are scanned too
duplicate_index_key_loop_every_index(cache, file, btrees, i, commit_index, issues) ==
    IF i > Len(btrees) THEN [ok |-> TRUE, issues |-> issues]
    ELSE IF btrees[i].is_table
    THEN duplicate_index_key_loop(cache, file, btrees, i + 1, commit_index, issues)
    ELSE duplicate_index_key_collected(cache, file, btrees, i, commit_index, issues,
                                       collect_index_keys(cache, file, btrees[i].root_page))

\* the loop of DuplicateIndexKeyValidator::validate from the i-th B-tree on
duplicate_index_key_loop(cache, file, btrees, i, commit_index, issues) ==
    IF i > Len(btrees) THEN [ok |-> TRUE, issues |-> issues]
    ELSE IF btrees[i].is_table
    THEN duplicate_index_key_loop(cache, file, btrees, i + 1, commit_index, issues)
    ELSE IF ~btrees[i].is_unique
    THEN duplicate_index_key_loop(cache, file, btrees, i + 1, commit_index, issues)
    ELSE duplicate_index_key_collected(cache, file, btrees, i, commit_index, issues,
                                       collect_index_keys(cache, file, btrees[i].root_page))

\* DuplicateIndexKeyValidator::validate after discover_btrees returned r
duplicate_index_key_discovered(cache, file, commit_index, r) ==
    IF ~r.ok THEN r
    ELSE duplicate_index_key_loop(cache, file, r.btrees, 1, commit_index, <<>>)

\* DuplicateIndexKeyValidator::validate
DuplicateIndexKeyValidator_validate(cache, file, commit_index) ==
    duplicate_index_key_discovered(cache, file, commit_index, discover_btrees(cache, file))

\* " WHERE " and "(("
StrWhere == <<32, 87, 72, 69, 82, 69, 32>>
StrParens == <<40, 40>>

\* expr_patterns of should_skip_index: "LOWER(", "UPPER(", "SUBSTR(",
\* "LENGTH(", "ABS(", "COALESCE(", "IFNULL(", "NULLIF(", "TYPEOF(", "CAST(",
\* "DATE(", "TIME(", "DATETIME(", "JULIANDAY(", "JSON_EXTRACT(", "JSON("
expr_patterns ==
    {<<76, 79, 87, 69, 82, 40>>,
     <<85, 80, 80, 69, 82, 40>>,
     <<83, 85, 66, 83, 84, 82, 40>>,
     <<76, 69, 78, 71, 84, 72, 40>>,
     <<65, 66, 83, 40>>,
     <<67, 79, 65, 76, 69, 83, 67, 69, 40>>,
     <<73, 70, 78, 85, 76, 76, 40>>,
     <<78, 85, 76, 76, 73, 70, 40>>,
     <<84, 89, 80, 69, 79, 70, 40>>,
     <<67, 65, 83, 84, 40>>,
     <<68, 65, 84, 69, 40>>,
     <<84, 73, 77, 69, 40>>,
     <<68, 65, 84, 69, 84, 73, 77, 69, 40>>,
     <<74, 85, 76, 73, 65, 78, 68, 65, 89, 40>>,
     <<74, 83, 79, 78, 95, 69, 88, 84, 82, 65, 67, 84, 40>>,
     <<74, 83, 79, 78, 40>>}

\* should_skip_index on the upper-cased SQL text
should_skip_upper(sql_upper) ==
    \/ contains(sql_upper, StrWhere)
    \/ contains(sql_upper, StrParens)
    \/ \E pattern \in expr_patterns : contains(sql_upper, pattern)

\* IndexIntegrityValidator::should_skip_index
should_skip_index(index) ==
    IF index.sql # <<>> THEN should_skip_upper(to_uppercase(index.sql[1])) ELSE FALSE

RECURSIVE table_map_from(_, _, _)
\* table_map of IndexIntegrityValidator::validate: the root page of every
\* table by name, a later table of the same name replacing an earlier one
table_map_from(btrees, i, m) ==
    IF i > Len(btrees) THEN m
    ELSE table_map_from(btrees, i + 1,
                        IF btrees[i].is_table /\ btrees[i].name # <<>>
                        THEN MapInsert(m, btrees[i].name[1], btrees[i].root_page)
                        ELSE m)

\* the elements of a Vec, as into_iter().collect() gathers them in a HashSet
HashSetOf(v) == {v[i] : i \in DOMAIN v}

\* ValidationIssue::new with the message and the location of an issue of
\* IndexIntegrityValidator: the message names the count and the rowids (at
\* most ten of them)
integrity_issue(kind, rowids, index, commit_index) ==
    [validator |-> "index-integrity",
     severity |-> "Error",
     message |-> [kind |-> kind, count |-> Cardinality(rowids), rowids |-> rowids],
     location |-> [kind |-> "Index", name |-> index.name, root_page |-> index.root_page],
     commit_index |-> commit_index,
     duplicate_details |-> <<>>]

\* the end of the loop body of IndexIntegrityValidator::validate: the
\* missing entries are reported, then the dangling ones
push_integrity_issues(issues, index, commit_index, missing, dangling) ==
    (IF missing # {}
     THEN Append(issues, integrity_issue("missing", missing, index, commit_index))
     ELSE issues)
    \o (IF dangling # {}
        THEN <<integrity_issue("dangling", dangling, index, commit_index)>>
        ELSE <<>>)

RECURSIVE index_integrity_loop(_, _, _, _, _, _, _)
\* the loop body after the rowids of the index were collected
index_integrity_compared(cache, file, btrees, table_map, i, commit_index, issues, table_rowids, index_rowids) ==
    IF ~index_rowids.ok THEN index_rowids
    ELSE index_integrity_loop(cache, file, btrees, table_map, i + 1, commit_index,
             push_integrity_issues(issues, btrees[i], commit_index,
                                   table_rowids \ HashSetOf(index_rowids.rowids),
                                   HashSetOf(index_rowids.rowids) \ table_rowids))

\* the loop body after the rowids of the table were collected
index_integrity_table(cache, file, btrees, table_map, i, commit_index, issues, rowids) ==
    IF ~rowids.ok THEN rowids
    ELSE index_integrity_compared(cache, file, btrees, table_map, i, commit_index, issues,
             {rowids.entries[k][1] : k \in DOMAIN rowids.entries},
             collect_index_rowids(cache, file, btrees[i].root_page))

\* the loop of IndexIntegrityValidator::validate from the i-th B-tree on
index_integrity_loop(cache, file, btrees, table_map, i, commit_index, issues) ==
    IF i > Len(btrees) THEN [ok |-> TRUE, issues |-> issues]
    ELSE IF \/ btrees[i].is_table
            \/ should_skip_index(btrees[i])
            \/ btrees[i].tbl_name = <<>>
            \/ btrees[i].tbl_name[1] \notin DOMAIN table_map
    THEN index_integrity_loop(cache, file, btrees, table_map, i + 1, commit_index, issues)
    ELSE index_integrity_table(cache, file, btrees, table_map, i, commit_index, issues,
             collect_table_rowids(cache, file, table_map[btrees[i].tbl_name[1]]))

\* IndexIntegrityValidator::validate after discover_btrees returned r
index_integrity_discovered(cache, file, commit_index, r) ==
    IF ~r.ok THEN r
    ELSE index_integrity_loop(cache, file, r.btrees, table_map_from(r.btrees, 1, <<>>), 1,
                              commit_index, <<>>)

\* IndexIntegrityValidator::validate
IndexIntegrityValidator_validate(cache, file, commit_index) ==
    index_integrity_discovered(cache, file, commit_index, discover_btrees(cache, file))

----------------------------------------------------------------------------
(* validators/mod.rs: the configuration and the set of enabled validators. *)
(* A validator (a Box<dyn Validator>) is written as its name.              *)

\* ValidatorConfig::default (derived): check_indexes is false
ValidatorConfig_default == [check_indexes |-> FALSE]

\* Validator::is_enabled: the default method of the trait, which neither
\* DuplicateRowidValidator nor DuplicateIndexKeyValidator overrides
is_enabled(validator, config) == TRUE

\* default_validators
default_validators == <<"duplicate-rowid", "duplicate-index-key">>

\* the test of the filter of enabled_validators
is_enabled_in(config, validator) == is_enabled(validator, config)

\* enabled_validators
enabled_validators(config) ==
    SelectSeq(default_validators, LAMBDA v : is_enabled_in(config, v))

\* Validator::validate of the validator of that name
Validator_validate(validator, cache, file, commit_index) ==
    IF validator = "duplicate-rowid"
    THEN DuplicateRowidValidator_validate(cache, file, commit_index)
    ELSE DuplicateIndexKeyValidator_validate(cache, file, commit_index)

----------------------------------------------------------------------------
(* The files the model runs on.  A WAL file is written the way the engine  *)
(* writes it (header, then frames whose checksums chain from the header's) *)
(* and is then damaged in at most one frame and cut at the end.            *)

\* the salts of the WAL header
Salts == <<4660, 22136>>
Salt1 == Salts[1]
Salt2 == Salts[2]

\* the page size of the iterator-level files
SmallPageSize == 8 * PageChunks

\* byte j of the page written by the frame at position i: the bytes differ
\* from frame to frame, and odd frames hold high bytes that carry
PageImage(i, size) ==
    [j \in 1..size |-> IF i % 2 = 1 THEN 255 - ((i + j) % 5) ELSE (17 * i + j) % 256]

\* the 32 bytes of a WAL header; bad_ck stores a wrong checksum
WalHeaderBytes(magic, page_size, bad_ck) ==
    LET head == BE32(magic) \o BE32(3007000) \o BE32(page_size) \o BE32(0)
                \o BE32(Salt1) \o BE32(Salt2)
        ck == ChecksumChunks(head, 0, Seed00, magic = WAL_MAGIC_BE)
        c1 == IF bad_ck THEN wrapping_add(ck[1], <<0, 1>>) ELSE ck[1]
    IN  head \o WordBytes(c1) \o WordBytes(ck[2])

\* n zero bytes
Zeros(n) == [j \in 1..n |-> 0]

RECURSIVE Flatten(_)
\* the concatenation of a sequence of byte sequences
Flatten(seqs) == IF seqs = <<>> THEN <<>> ELSE seqs[1] \o Flatten(Tail(seqs))

\* the big-endian bytes of a u16
BE16(n) == <<n \div 256, n % 256>>

\* the varint of a value below 2^14
Varint(n) == IF n < 128 THEN <<n>> ELSE <<128 + (n \div 128), n % 128>>

\* record columns: a text and a one-byte integer
Text(str) == [st |-> 13 + 2 * Len(str), bytes |-> str]
Int8(n) == [st |-> 1, bytes |-> <<n>>]

\* the bytes of a record of the given columns
RecordBytes(cols) ==
    LET types == Flatten([i \in DOMAIN cols |-> Varint(cols[i].st)])
    IN  Varint(1 + Len(types)) \o types \o Flatten([i \in DOMAIN cols |-> cols[i].bytes])

\* a cell of a table leaf page
TableLeafCell(rowid, payload) == Varint(Len(payload)) \o Varint(rowid) \o payload

\* a B-tree page: the prefix (the database header on page 1), the page
\* header, the cell pointers, and the cells at the end of the page
BTreePage(prefix, type_byte, right_child, cells, page_size) ==
    LET body == Flatten(cells)
        start == page_size - Len(body)
        head == prefix \o <<type_byte, 0, 0>> \o BE16(Len(cells)) \o BE16(start) \o <<0>>
                \o right_child
                \o Flatten([i \in DOMAIN cells |->
                               BE16(start + Len(Flatten(SubSeq(cells, 1, i - 1))))])
    IN  head \o Zeros(start - Len(head)) \o body

\* the 100 bytes of a database header
DbHeaderBytes(page_size, page_count) ==
    SQLITE_MAGIC \o BE16(page_size) \o Zeros(10) \o BE32(page_count) \o Zeros(68)

\* the page size of the driver-level files: the smallest DbHeader::parse accepts
DriverPageSize == 512

\* "t" and "CREATE TABLE t(a)"
NameT == <<116>>
SqlT == <<67, 82, 69, 65, 84, 69, 32, 84, 65, 66, 76, 69, 32, 116, 40, 97, 41>>

\* a row of the catalog
CatalogCell(rowid, type, name, rootpage, sql) ==
    TableLeafCell(rowid, RecordBytes(<<Text(type), Text(name), Text(name),
                                       Int8(rootpage), Text(sql)>>))

\* page 1 of the driver-level base file: the catalog holds the table t, rooted at page 2
CatalogPage ==
    BTreePage(DbHeaderBytes(DriverPageSize, 2), 13, <<>>,
              <<CatalogCell(1, StrTable, NameT, 2, SqlT)>>, DriverPageSize)

\* a table leaf page holding one row for each of the rowids
RowsPage(rowids) ==
    BTreePage(<<>>, 13, <<>>,
              [i \in DOMAIN rowids |-> TableLeafCell(rowids[i], RecordBytes(<<Int8(i)>>))],
              DriverPageSize)

----------------------------------------------------------------------------
(* The databases of the scans: a catalog on page 1, a table tree rooted at *)
(* page 2 (leaves on pages 4 and 5 when the root is an interior page) and  *)
(* an index tree rooted at page 3 (leaves on pages 6 and 7), written as    *)
(* SQLite writes them.                                                     *)

\* "i"
NameI ==
    <<105>>
\* "sqlite_autoindex_t_1"
NameAuto ==
    <<115, 113, 108, 105, 116, 101, 95, 97, 117, 116, 111, 105, 110, 100, 101, 120, 95, 116,
    95, 49>>
\* "v"
NameV ==
    <<118>>
\* "u"
NameU ==
    <<117>>
\* "view"
StrView ==
    <<118, 105, 101, 119>>
\* "CREATE UNIQUE INDEX i ON t(a)"
SqlUniqueIndex ==
    <<67, 82, 69, 65, 84, 69, 32, 85, 78, 73, 81, 85, 69, 32, 73, 78, 68, 69, 88, 32, 105, 32,
    79, 78, 32, 116, 40, 97, 41>>
\* "create unique index i on t(a)"
SqlLowerUnique ==
    <<99, 114, 101, 97, 116, 101, 32, 117, 110, 105, 113, 117, 101, 32, 105, 110, 100, 101,
    120, 32, 105, 32, 111, 110, 32, 116, 40, 97, 41>>
\* "CREATE INDEX i ON t(a)"
SqlIndex ==
    <<67, 82, 69, 65, 84, 69, 32, 73, 78, 68, 69, 88, 32, 105, 32, 79, 78, 32, 116, 40, 97,
    41>>
\* "CREATE INDEX i ON t(un\u0131que)"
SqlDotless ==
    <<67, 82, 69, 65, 84, 69, 32, 73, 78, 68, 69, 88, 32, 105, 32, 79, 78, 32, 116, 40, 117,
    110, 196, 177, 113, 117, 101, 41>>
\* "CREATE INDEX i ON t(a) WHERE a>0"
SqlPartial ==
    <<67, 82, 69, 65, 84, 69, 32, 73, 78, 68, 69, 88, 32, 105, 32, 79, 78, 32, 116, 40, 97,
    41, 32, 87, 72, 69, 82, 69, 32, 97, 62, 48>>
\* "CREATE INDEX i ON t(abs(a))"
SqlExpression ==
    <<67, 82, 69, 65, 84, 69, 32, 73, 78, 68, 69, 88, 32, 105, 32, 79, 78, 32, 116, 40, 97,
    98, 115, 40, 97, 41, 41>>
\* "CREATE VIEW v AS SELECT 1"
SqlView ==
    <<67, 82, 69, 65, 84, 69, 32, 86, 73, 69, 87, 32, 118, 32, 65, 83, 32, 83, 69, 76, 69, 67,
    84, 32, 49>>

\* a column as SQLite writes an integer of -128..127: 0 and 1 are held by
\* the serial type alone
IntCol(n) ==
    IF n = 0 THEN [st |-> 8, bytes |-> <<>>]
    ELSE IF n = 1 THEN [st |-> 9, bytes |-> <<>>]
    ELSE [st |-> 1, bytes |-> <<(n + 256) % 256>>]

\* a NULL column
NullCol == [st |-> 0, bytes |-> <<>>]

\* a text column for <<text>>, NULL for <<>>
OptText(t) == IF t = <<>> THEN NullCol ELSE Text(t[1])

\* a row of the catalog; sql is <<text>> or <<>> for NULL
CatalogRow(type, name, tbl_name, rootpage, sql) ==
    [type |-> type, name |-> name, tbl_name |-> tbl_name, rootpage |-> rootpage, sql |-> sql]

\* the cell of a catalog row
CatalogRowCell(rowid, row) ==
    TableLeafCell(rowid, RecordBytes(<<Text(row.type), Text(row.name), Text(row.tbl_name),
                                       IntCol(row.rootpage), OptText(row.sql)>>))

\* the number of pages of a database of the scans
ScanPageCount == 7

\* page 1: the database header and the catalog rows
ScanCatalogPage(rows) ==
    BTreePage(DbHeaderBytes(DriverPageSize, ScanPageCount), 13, <<>>,
              [i \in DOMAIN rows |-> CatalogRowCell(i, rows[i])], DriverPageSize)

\* a cell of a table interior page: the left child and the largest rowid under it
TableInteriorCell(left, key) == BE32(left) \o Varint(key)

\* the pages of a table tree given the rowids of its leaves, leaf by leaf:
\* one leaf is the root; two leaves hang under an interior root
TableRootPage(leaves) ==
    IF Len(leaves) = 1 THEN RowsPage(leaves[1])
    ELSE BTreePage(<<>>, 5, BE32(5),
                   <<TableInteriorCell(4, leaves[1][Len(leaves[1])])>>, DriverPageSize)

TableLeafPage(leaves, n) ==
    IF Len(leaves) = 1 THEN Zeros(DriverPageSize) ELSE RowsPage(leaves[n])

\* the record of an index entry <<value, rowid>>: the indexed column, then
\* the rowid of the row
IndexRecord(e) == RecordBytes(<<IntCol(e[1]), IntCol(e[2])>>)

\* a cell of an index leaf page
IndexLeafCell(e) == Varint(Len(IndexRecord(e))) \o IndexRecord(e)

\* a cell of an index interior page: the left child, then an entry of its own
IndexInteriorCell(left, e) == BE32(left) \o IndexLeafCell(e)

\* an index leaf page holding the entries
IndexLeafPage(entries) ==
    BTreePage(<<>>, 10, <<>>, [i \in DOMAIN entries |-> IndexLeafCell(entries[i])],
              DriverPageSize)

\* the pages of an index tree: one leaf is the root; two leaves hang under
\* an interior root whose cell carries the entry between them
IndexRootPage(index) ==
    IF Len(index.leaves) = 1 THEN IndexLeafPage(index.leaves[1])
    ELSE BTreePage(<<>>, 2, BE32(7), <<IndexInteriorCell(6, index.sep[1])>>, DriverPageSize)

IndexLeafPageOf(index, n) ==
    IF Len(index.leaves) = 1 THEN Zeros(DriverPageSize) ELSE IndexLeafPage(index.leaves[n])

\* the database file of a scenario
ScanDbFile(sc) ==
    ScanCatalogPage(sc.rows) \o TableRootPage(sc.table) \o IndexRootPage(sc.index)
    \o TableLeafPage(sc.table, 1) \o TableLeafPage(sc.table, 2)
    \o IndexLeafPageOf(sc.index, 1) \o IndexLeafPageOf(sc.index, 2)

\* the rowids of the leaves of a table tree: distinct on one leaf, a rowid
\* held twice on a leaf, distinct on two leaves, and rowids held again on
\* the same and on another leaf
TableShapes ==
    {<<(<<1, 2, 3>>)>>, <<(<<5, 5, 7>>)>>, <<(<<1, 2>>), (<<3, 4>>)>>,
     <<(<<1, 2, 2>>), (<<2, 3, 3>>)>>}

IndexShape(leaves, sep) == [leaves |-> leaves, sep |-> sep]

\* the entries of an index tree: an entry for each of the rows 1, 2, 3; the
\* same value held for two rows; the same under an interior root that
\* carries an entry; an entry too many; an entry too few; both
IndexShapes ==
    {IndexShape(<<(<<(<<11, 1>>), (<<12, 2>>), (<<13, 3>>)>>)>>, <<>>),
     IndexShape(<<(<<(<<11, 1>>), (<<11, 2>>), (<<13, 3>>)>>)>>, <<>>),
     IndexShape(<<(<<(<<11, 1>>), (<<12, 2>>), (<<12, 3>>)>>)>>, <<>>),
     IndexShape(<<(<<(<<11, 1>>)>>), (<<(<<13, 3>>)>>)>>, <<(<<12, 2>>)>>),
     IndexShape(<<(<<(<<11, 1>>), (<<12, 2>>)>>), (<<(<<14, 4>>)>>)>>, <<(<<13, 3>>)>>),
     IndexShape(<<(<<(<<12, 2>>)>>), (<<(<<12, 4>>)>>)>>, <<(<<12, 3>>)>>),
     IndexShape(<<(<<(<<11, 1>>), (<<12, 2>>), (<<13, 3>>), (<<14, 4>>)>>)>>, <<>>),
     IndexShape(<<(<<(<<11, 1>>), (<<13, 3>>)>>)>>, <<>>),
     IndexShape(<<(<<(<<11, 1>>), (<<14, 4>>)>>)>>, <<>>)}

\* the catalog row of the table t, rooted at page 2
TableRowT == CatalogRow(StrTable, NameT, NameT, 2, <<SqlT>>)

\* the catalog rows of the index rooted at page 3: declared unique, not
\* unique, made for a constraint, declared in lower case, partial, on an
\* expression, on a column named with a dotless i, on a table the catalog
\* does not hold, and without SQL text
IndexRows ==
    {CatalogRow(StrIndex, NameI, NameT, 3, <<SqlUniqueIndex>>),
     CatalogRow(StrIndex, NameI, NameT, 3, <<SqlIndex>>),
     CatalogRow(StrIndex, NameAuto, NameT, 3, <<>>),
     CatalogRow(StrIndex, NameI, NameT, 3, <<SqlLowerUnique>>),
     CatalogRow(StrIndex, NameI, NameT, 3, <<SqlPartial>>),
     CatalogRow(StrIndex, NameI, NameT, 3, <<SqlExpression>>),
     CatalogRow(StrIndex, NameI, NameT, 3, <<SqlDotless>>),
     CatalogRow(StrIndex, NameI, NameU, 3, <<SqlIndex>>),
     CatalogRow(StrIndex, NameI, NameT, 3, <<>>)}

\* the index rows every shape of tree is tried with
MainIndexRows ==
    {r \in IndexRows : r.tbl_name = NameT /\ r.sql \in {<<SqlUniqueIndex>>, <<SqlIndex>>, <<>>}}

\* the rows a catalog may hold besides: a view, a table without a tree of
\* its own, and a table whose stored root page is negative
OtherRows ==
    {CatalogRow(StrView, NameV, NameV, 0, <<SqlView>>),
     CatalogRow(StrTable, NameU, NameU, 0, <<SqlT>>),
     CatalogRow(StrTable, NameU, NameU, -1, <<SqlT>>),
     CatalogRow(StrView, NameV, NameV, 3, <<SqlView>>)}

\* the catalog row of a second table, u, whose tree is the leaf on page 5
TableRowU == CatalogRow(StrTable, NameU, NameU, 5, <<SqlT>>)

Scenario(rows, table, index) == [rows |-> rows, table |-> table, index |-> index]

\* the scenarios: every shape of the two trees under the main catalogs, and
\* every catalog over a few shapes
Scenarios ==
    {Scenario(<<TableRowT, r>>, t, x) : r \in MainIndexRows, t \in TableShapes, x \in IndexShapes}
    \cup {Scenario(<<TableRowT, r>>, <<(<<1, 2, 3>>)>>,
                   IndexShape(<<(<<(<<11, 1>>), (<<12, 2>>), (<<13, 3>>)>>)>>, <<>>)) :
            r \in IndexRows}
    \cup {Scenario(<<TableRowT, r, o>>, t,
                   IndexShape(<<(<<(<<11, 1>>), (<<12, 2>>), (<<13, 3>>)>>)>>, <<>>)) :
            r \in MainIndexRows, o \in OtherRows,
            t \in {<<(<<1, 2, 3>>)>>, <<(<<5, 5, 7>>)>>}}
    \cup {Scenario(<<TableRowT, r, TableRowU>>, t,
                   IndexShape(<<(<<(<<11, 1>>), (<<12, 2>>), (<<13, 3>>)>>)>>, <<>>)) :
            r \in MainIndexRows, t \in {x \in TableShapes : Len(x) = 2}}

----------------------------------------------------------------------------
(* The pages the frames of the written WAL files carry.                    *)

\* the images of a data page: distinct rowids, a rowid held twice, and a
\* page that is no B-tree page
PageImages == {"clean", "dup", "bad"}

\* the images of the catalog page of a database of three pages: the table
\* t alone, t and an index on it that is not unique, t and a unique index,
\* the index without the table, and t with an index rooted at page 5, a
\* page the file does not hold
CatalogImages == {"cat_t", "cat_ti", "cat_tu", "cat_i", "cat_far"}

\* the rows of a catalog image
CatalogRowsOf(img) ==
    CASE img = "cat_t" -> <<TableRowT>>
      [] img = "cat_ti" -> <<TableRowT, CatalogRow(StrIndex, NameI, NameT, 3, <<SqlIndex>>)>>
      [] img = "cat_tu" -> <<TableRowT, CatalogRow(StrIndex, NameI, NameT, 3, <<SqlUniqueIndex>>)>>
      [] img = "cat_i" -> <<CatalogRow(StrIndex, NameI, NameT, 3, <<SqlIndex>>)>>
      [] img = "cat_far" -> <<TableRowT, CatalogRow(StrIndex, NameI, NameT, 5, <<SqlIndex>>)>>

\* the images of the index leaf on page 3: two values, or one value held
\* for two rows
KeyImages == {"keys", "keys_dup"}

DataPage(img) ==
    CASE img = "clean" -> RowsPage(<<1, 2>>)
      [] img = "dup" -> RowsPage(<<5, 5, 7>>)
      [] img = "bad" -> Zeros(DriverPageSize)
      [] img \in CatalogImages ->
           BTreePage(DbHeaderBytes(DriverPageSize, Len(<<1, 2, 3>>)), 13, <<>>,
                     [i \in DOMAIN CatalogRowsOf(img) |->
                        CatalogRowCell(i, CatalogRowsOf(img)[i])], DriverPageSize)
      [] img = "keys" -> IndexLeafPage(<<(<<11, 2>>), (<<12, 3>>)>>)
      [] img = "keys_dup" -> IndexLeafPage(<<(<<11, 2>>), (<<11, 3>>)>>)
      [] img = "zero_child" -> BTreePage(<<>>, 5, BE32(0), <<>>, DriverPageSize)

\* the page a frame of the given kind carries at position i
FramePageData(kind, i, page_size) ==
    IF kind.img = "pattern" THEN PageImage(i, page_size) ELSE DataPage(kind.img)

FrameKinds == {[pg |-> p, commit |-> c, img |-> "pattern"] : p \in 1..2, c \in BOOLEAN}

Defects == {"salt1", "salt2", "ck1", "ck2", "salt_ck", "flip_first", "flip_last"}

\* the bytes of the frame at 0-based position i, chained from the checksum prev
FrameBytes(kind, i, prev, big_endian, page_size, defect) ==
    LET data == FramePageData(kind, i, page_size)
        head8 == BE32(kind.pg) \o BE32(IF kind.commit THEN i + 2 ELSE 0)
        ck == ChecksumChunks(data, 0, ChecksumChunks(head8, 0, prev, big_endian), big_endian)
        s1 == IF defect \in {"salt1", "salt_ck"} THEN Salt1 + 1 ELSE Salt1
        s2 == IF defect = "salt2" THEN Salt2 + 1 ELSE Salt2
        c1 == IF defect \in {"ck1", "salt_ck"} THEN wrapping_add(ck[1], <<0, 1>>) ELSE ck[1]
        c2 == IF defect = "ck2" THEN wrapping_add(ck[2], <<32768, 0>>) ELSE ck[2]
        stored == CASE defect = "flip_first" -> [data EXCEPT ![1] = (@ + 1) % 256]
                    [] defect = "flip_last" -> [data EXCEPT ![page_size] = (@ + 128) % 256]
                    [] OTHER -> data
    IN  [bytes |-> head8 \o BE32(s1) \o BE32(s2) \o WordBytes(c1) \o WordBytes(c2) \o stored,
         ck |-> ck]

RECURSIVE FramesBytes(_, _, _, _, _, _, _)
\* the bytes of the frames kinds[i+1..], the frame at position bad carrying the defect
FramesBytes(kinds, i, prev, big_endian, page_size, bad, defect) ==
    IF i >= Len(kinds) THEN <<>>
    ELSE LET f == FrameBytes(kinds[i + 1], i, prev, big_endian, page_size,
                             IF i = bad THEN defect ELSE "none")
         IN  f.bytes \o FramesBytes(kinds, i + 1, f.ck, big_endian, page_size, bad, defect)

\* a whole WAL file
WalBytes(magic, page_size, bad_ck, kinds, bad, defect) ==
    LET h == WalHeaderBytes(magic, page_size, bad_ck)
        big_endian == (magic = WAL_MAGIC_BE)
    IN  h \o FramesBytes(kinds, 0, ChecksumChunks(Slice(h, 0, 24), 0, Seed00, big_endian),
                         big_endian, page_size, bad, defect)

FrameSeqs == UNION {[1..n -> FrameKinds] : n \in 0..MaxFrames}

\* the damage done to a written file of n frames: the frame at position bad
\* carries the defect, and cut bytes are cut off the end of the file (nothing,
\* a part of the last page, or the last page and a part of its header)
Damages(n, page_size) ==
    {[bad |-> 0, defect |-> "none", cut |-> 0]}
    \cup {[bad |-> b, defect |-> d, cut |-> 0] : b \in 0..(n - 1), d \in Defects}
    \cup {[bad |-> n - 1, defect |-> d, cut |-> c] :
            d \in (IF n = 0 THEN {} ELSE {"none", "ck1"}), c \in {3, page_size + 10}}

\* the damage tried on the files with little-endian checksums
FewDamages(n, page_size) ==
    {g \in Damages(n, page_size) : g.cut = 0 /\ g.defect \in {"none", "ck2", "flip_last"}}

\* a written file, damaged
DamagedWal(magic, page_size, ks, g) ==
    LET whole == WalBytes(magic, page_size, FALSE, ks, g.bad, g.defect)
    IN  Slice(whole, 0, Len(whole) - g.cut)

\* wal_file is a WAL file with a valid header
GoodHeaderWal(file) ==
    \E ks \in FrameSeqs :
        \/ \E g \in Damages(Len(ks), SmallPageSize) :
              file = DamagedWal(WAL_MAGIC_BE, SmallPageSize, ks, g)
        \/ \E g \in FewDamages(Len(ks), SmallPageSize) :
              file = DamagedWal(WAL_MAGIC_LE, SmallPageSize, ks, g)

\* wal_file is a WAL file whose header is wrong: a wrong stored checksum, an
\* unknown magic, fewer than 32 bytes
BadHeaderWal(file) ==
    \/ \E ks \in FrameSeqs : file = WalBytes(WAL_MAGIC_BE, SmallPageSize, TRUE, ks, 0, "none")
    \/ file = WalBytes(WAL_MAGIC_BE + 2, SmallPageSize, FALSE, <<>>, 0, "none")
    \/ file = Slice(WalBytes(WAL_MAGIC_LE, SmallPageSize, FALSE, <<>>, 0, "none"), 0, 20)

\* the base file of the iterator-level runs: one page
SmallDbFile == [j \in 1..SmallPageSize |-> 170]

\* the page counts the header of that base file may declare: its one page,
\* or three pages (more than any commit frame of two frames declares after
\* it, page 3 being written by no frame)
BaseCounts == {1, 3}

\* the frames of the driver-level files: page 2 rewritten, or a page 3 added
DriverFrameKinds ==
    {[pg |-> 2, commit |-> TRUE, img |-> m] : m \in PageImages}
    \cup {[pg |-> 2, commit |-> FALSE, img |-> "dup"]}
    \cup {[pg |-> 3, commit |-> c, img |-> "clean"] : c \in BOOLEAN}

DriverFrameSeqs == UNION {[1..n -> DriverFrameKinds] : n \in 0..MaxFrames}

\* the damage done to a driver-level file of n frames: one byte of the page
\* data of one frame is changed
DriverDamages(n) ==
    {[bad |-> 0, defect |-> "none", cut |-> 0]}
    \cup {[bad |-> b, defect |-> "flip_first", cut |-> 0] : b \in 0..(n - 1)}
    \cup (IF n = 0 THEN {} ELSE {[bad |-> n - 1, defect |-> "flip_last", cut |-> 0]})

\* wal_file is a driver-level WAL file: written for the page size of the
\* base file and damaged, or written for another page size, or of a wrong
\* header
DriverWal(file) ==
    \/ \E ks \in DriverFrameSeqs : \E g \in DriverDamages(Len(ks)) :
          file = DamagedWal(WAL_MAGIC_BE, DriverPageSize, ks, g)
    \/ \E ks \in DriverFrameSeqs :
          /\ Len(ks) <= 1
          /\ \/ file = WalBytes(WAL_MAGIC_BE, 2 * DriverPageSize, FALSE, ks, 0, "none")
             \/ file = WalBytes(WAL_MAGIC_LE, DriverPageSize, FALSE, ks, 0, "none")
    \/ file = WalBytes(WAL_MAGIC_BE + 2, DriverPageSize, FALSE, <<>>, 0, "none")
    \/ file = Slice(WalBytes(WAL_MAGIC_BE, DriverPageSize, FALSE, <<>>, 0, "none"), 0, 20)

\* db_file is a driver-level base file: the catalog page and a data page, or
\* a file of a wrong header
DriverDb(file) ==
    \/ \E img \in PageImages : file = CatalogPage \o DataPage(img)
    \/ file = [CatalogPage EXCEPT ![1] = 0] \o DataPage("clean")
    \/ file = Slice(CatalogPage, 0, 60)

----------------------------------------------------------------------------
(* What a WAL file holds, read off its bytes without the iterator.  These  *)
(* definitions state the claims; they model no code.                       *)

WalPageSize(file) == ReadU32BE(file, 8)

FrameOffset(file, i) == 32 + i * (24 + WalPageSize(file))

\* the 24 header bytes of frame i are in the file
FrameHeaderComplete(file, i) == FrameOffset(file, i) + 24 <= Len(file)

\* the header and the page of frame i are in the file
FrameComplete(file, i) == FrameOffset(file, i + 1) <= Len(file)

FrameHeaderBytes(file, i) == Slice(file, FrameOffset(file, i), FrameOffset(file, i) + 24)

FrameHeaderOf(file, i) == FrameHeader_parse(FrameHeaderBytes(file, i))

FramePage(file, i) == Slice(file, FrameOffset(file, i) + 24, FrameOffset(file, i + 1))

FileBigEndian(file) == ReadU32BE(file, 0) = WAL_MAGIC_BE

RECURSIVE Rolling(_, _)
\* the rolling checksum over the header and the complete frames 0..i-1
Rolling(file, i) ==
    IF i = 0 THEN ChecksumChunks(Slice(file, 0, 24), 0, Seed00, FileBigEndian(file))
    ELSE ChecksumChunks(FramePage(file, i - 1), 0,
             ChecksumChunks(Slice(FrameHeaderBytes(file, i - 1), 0, 8), 0,
                            Rolling(file, i - 1), FileBigEndian(file)),
             FileBigEndian(file))

SaltsMatch(file, i) ==
    /\ FrameHeaderOf(file, i).salt1 = ReadU32BE(file, 16)
    /\ FrameHeaderOf(file, i).salt2 = ReadU32BE(file, 20)

ChecksumMatches(file, i) ==
    Rolling(file, i + 1) = <<FrameHeaderOf(file, i).checksum1, FrameHeaderOf(file, i).checksum2>>

FrameValid(file, i) ==
    FrameComplete(file, i) /\ SaltsMatch(file, i) /\ ChecksumMatches(file, i)

RECURSIVE FirstInvalidFrom(_, _)
FirstInvalidFrom(file, i) ==
    IF FrameValid(file, i) THEN FirstInvalidFrom(file, i + 1) ELSE i

\* the length of the valid frame prefix: the index of the first frame that is
\* truncated, absent, of other salts or of a wrong checksum
ValidPrefix(file) == FirstInvalidFrom(file, 0)

\* frame i is commit-marked
CommitMarked(file, i) == FrameHeaderOf(file, i).db_size_after_commit # 0

\* why the valid prefix ends where it ends: the frame after it is truncated or
\* absent, or is of other salts, or is complete, of the header's salts and of
\* a wrong checksum
PrefixEnd(file, v) ==
    IF ~FrameHeaderComplete(file, v) THEN "truncated"
    ELSE IF ~SaltsMatch(file, v) THEN "salt"
    ELSE IF ~FrameComplete(file, v) THEN "truncated"
    ELSE "checksum"

\* the first complete frame whose stored checksum is not the rolling checksum
\* of what precedes it and itself, or -1
RECURSIVE FirstChecksumBadFrom(_, _)
FirstChecksumBadFrom(file, i) ==
    IF ~FrameComplete(file, i) THEN -1
    ELSE IF ~ChecksumMatches(file, i) THEN i
    ELSE FirstChecksumBadFrom(file, i + 1)

\* frame k is complete and one byte of its page data, the first or the last,
\* differs from a value with which the stored checksum of frame k is right
OneByteOff(file, k) ==
    /\ FrameComplete(file, k)
    /\ ~ChecksumMatches(file, k)
    /\ \E fix \in {<<FrameOffset(file, k) + 25, 255>>, <<FrameOffset(file, k + 1), 128>>} :
          ChecksumMatches([file EXCEPT ![fix[1]] = (@ + fix[2]) % 256], k)

\* the facts about a WAL file whose header parses
FactsOf(file) ==
    IF Len(file) < 32 \/ ReadU32BE(file, 0) \notin {WAL_MAGIC_BE, WAL_MAGIC_LE}
    THEN [header_ok |-> FALSE]
    ELSE LET v == ValidPrefix(file) IN
         [header_ok |-> TRUE,
          header_checksum_ok |->
              Rolling(file, 0) = <<WordBE(file, 24), WordBE(file, 28)>>,
          valid_prefix |-> v,
          commit_frames |-> {i \in 0..(v - 1) : CommitMarked(file, i)},
          end |-> PrefixEnd(file, v),
          first_checksum_bad |-> FirstChecksumBadFrom(file, 0),
          one_byte_off |-> PrefixEnd(file, v) = "checksum" /\ OneByteOff(file, v),
          complete_frames |-> (Len(file) - 32) \div (24 + WalPageSize(file))]

----------------------------------------------------------------------------
(* The consumer of the iterator: it opens the WAL, calls next again and    *)
(* again (also after the iterator has ended) and hands every commit it got *)
(* to apply_commit, in the order it got them.                              *)

\* a local of validate that is not bound yet
Unset == [ok |-> FALSE, err |-> [kind |-> "Unset"]]

\* validate has not been called
DriverIdle ==
    /\ db_header = Unset
    /\ all_reports = <<>>
    /\ total_commits = 0
    /\ returned = [tag |-> "None"]
    /\ exit_code = -1
    /\ passes = <<>>

\* no scan has returned
ScanOutputsIdle ==
    /\ discovered = Unset
    /\ table_scan = <<>>
    /\ key_scan = <<>>
    /\ rowid_scan = <<>>
    /\ rowid_issues = Unset
    /\ key_issues = Unset
    /\ integrity_issues = Unset
    /\ scan_reports = Unset
    /\ intra = <<>>
    /\ key_pair = <<>>
    /\ probe = <<>>

\* no scan has been made
ScanIdle == scenario = <<>> /\ ScanOutputsIdle

Init ==
    /\ GoodHeaderWal(wal_file) \/ BadHeaderWal(wal_file)
    /\ db_file = SmallDbFile
    /\ iter = CommitIterator_new(wal_file)
    /\ results = <<>>
    /\ \E count \in BaseCounts : page_cache = PageCache_new(db_file, SmallPageSize, count)
    /\ n_applied = 0
    /\ wal_facts = FactsOf(wal_file)
    /\ phase = "consumer"
    /\ DriverIdle
    /\ ScanIdle

\* the commits among the first n results
RECURSIVE CommitsOf(_)
CommitsOf(rs) ==
    IF rs = <<>> THEN <<>>
    ELSE LET r == rs[Len(rs)]
             front == CommitsOf(SubSeq(rs, 1, Len(rs) - 1))
         IN  IF r.tag = "Commit" THEN Append(front, r.commit) ELSE front

\* one call of CommitIterator::next
CallNext ==
    /\ iter.ok
    /\ Len(results) < MaxCalls
    /\ LET r == next(iter, wal_file) IN
        /\ iter' = r.it
        /\ results' = Append(results, r.ret)
    /\ UNCHANGED <<scan_vars, wal_file, db_file, page_cache, n_applied, wal_facts, driver_vars>>

\* PageCache::apply_commit on the next commit not yet applied
ApplyCommit ==
    /\ n_applied < Len(CommitsOf(results))
    /\ page_cache' = apply_commit(page_cache, CommitsOf(results)[n_applied + 1])
    /\ n_applied' = n_applied + 1
    /\ UNCHANGED <<scan_vars, wal_file, db_file, iter, results, wal_facts, driver_vars>>

Next == CallNext \/ ApplyCommit

Spec == Init /\ [][Next]_vars

----------------------------------------------------------------------------
(* The driver: main calls validate on the two files and exits with a       *)
(* status.  validate runs as the steps below, one after the other.         *)

InitDriver ==
    /\ DriverWal(wal_file)
    /\ wal_facts = FactsOf(wal_file)
    /\ DriverDb(db_file)
    /\ iter = Unset
    /\ results = <<>>
    /\ page_cache = Unset
    /\ n_applied = 0
    /\ phase = "start"
    /\ DriverIdle
    /\ ScanIdle

\* validate returns Err(e)
Fail(e) ==
    /\ returned' = [tag |-> "Err", err |-> e]
    /\ phase' = "returned"

\* the frame index of every page of the overlay
OverlayFrames(cache) == [p \in DOMAIN cache.overlay |-> cache.overlay[p][2]]

\* the record of a pass: the commit index it was given, the overlay it
\* scanned, whether it ended without error and the reports it pushed
PassRecord(commit_index, cache, r) ==
    [commit_index |-> commit_index,
     frames |-> OverlayFrames(cache),
     ok |-> r.ok,
     pushed |-> IF r.ok THEN SubSeq(r.reports, Len(all_reports) + 1, Len(r.reports))
                ELSE <<>>]

\* validate after DbHeader::from_file returned h: the page cache is made
Started(h) ==
    /\ db_header' = h
    /\ IF h.ok
       THEN /\ page_cache' = PageCache_new(db_file, h.page_size, h.page_count)
            /\ phase' = "base"
            /\ UNCHANGED returned
       ELSE /\ Fail(h.err)
            /\ UNCHANGED page_cache

\* validate reads the database header and makes the page cache
Start ==
    /\ phase = "start"
    /\ Started(DbHeader_from_file(db_file))
    /\ UNCHANGED <<scan_vars, wal_file, db_file, iter, results, n_applied, wal_facts,
                   all_reports, total_commits, exit_code, passes>>

\* validate after the pass given commit_index returned r
Scanned(commit_index, r, then) ==
    /\ passes' = Append(passes, PassRecord(commit_index, page_cache, r))
    /\ IF r.ok
       THEN /\ all_reports' = r.reports
            /\ phase' = then
            /\ UNCHANGED returned
       ELSE /\ Fail(r.err)
            /\ UNCHANGED all_reports

\* validate scans the base state
BasePass ==
    /\ phase = "base"
    /\ Scanned(<<>>, scan_state(page_cache, db_file, <<>>, all_reports), "open")
    /\ UNCHANGED <<scan_vars, wal_file, db_file, iter, results, page_cache, n_applied, wal_facts,
                   db_header, total_commits, exit_code>>

\* validate after open_wal returned r
Opened(r) ==
    /\ iter' = r
    /\ IF r.ok
       THEN phase' = "loop" /\ UNCHANGED returned
       ELSE Fail(r.err)

\* validate opens the WAL and compares the page sizes
OpenWal ==
    /\ phase = "open"
    /\ Opened(open_wal(wal_file, db_header))
    /\ UNCHANGED <<scan_vars, wal_file, db_file, results, page_cache, n_applied, wal_facts,
                   db_header, all_reports, total_commits, exit_code, passes>>

\* the loop over the commits after next returned r: a commit is counted and
\* applied to the page cache, None ends the loop and validate returns Ok, an
\* error is returned
Iterated(r) ==
    /\ iter' = r.it
    /\ results' = Append(results, r.ret)
    /\ CASE r.ret.tag = "Commit" ->
              /\ total_commits' = total_commits + 1
              /\ page_cache' = apply_commit(page_cache, r.ret.commit)
              /\ n_applied' = n_applied + 1
              /\ phase' = "scan"
              /\ UNCHANGED returned
         [] r.ret.tag = "None" ->
              /\ returned' = [tag |-> "Ok", reports |-> all_reports,
                              total_commits |-> total_commits]
              /\ phase' = "returned"
              /\ UNCHANGED <<total_commits, page_cache, n_applied>>
         [] r.ret.tag = "Err" ->
              /\ Fail(r.ret.err)
              /\ UNCHANGED <<total_commits, page_cache, n_applied>>

\* the head of the loop over the commits: the iterator is asked for the next
\* commit
NextCommit ==
    /\ phase = "loop"
    /\ Iterated(next(iter, wal_file))
    /\ UNCHANGED <<scan_vars, wal_file, db_file, wal_facts, db_header, all_reports, exit_code, passes>>

\* the body of the loop after apply_commit: the state after the commit is scanned
CommitPass ==
    /\ phase = "scan"
    /\ Scanned(<<results[Len(results)].commit.index>>,
               scan_state(page_cache, db_file, <<results[Len(results)].commit.index>>,
                          all_reports),
               "loop")
    /\ UNCHANGED <<scan_vars, wal_file, db_file, iter, results, page_cache, n_applied, wal_facts,
                   db_header, total_commits, exit_code>>

\* main turns what validate returned into the exit status
MainExit ==
    /\ phase = "returned"
    /\ exit_code' = exit_status(returned)
    /\ phase' = "exited"
    /\ UNCHANGED <<scan_vars, wal_file, db_file, iter, results, page_cache, n_applied, wal_facts,
                   db_header, all_reports, total_commits, returned, passes>>

\* the frames of the files whose commits change the catalog: page 1
\* rewritten with another catalog (once in a frame that is no commit frame),
\* the index leaf rewritten, the root of t rewritten as an interior page
\* whose only child is page 0
SchemaFrameKinds ==
    {[pg |-> 1, commit |-> TRUE, img |-> m] : m \in {"cat_t", "cat_ti", "cat_i"}}
    \cup {[pg |-> 1, commit |-> FALSE, img |-> "cat_ti"]}
    \cup {[pg |-> 3, commit |-> TRUE, img |-> m] : m \in KeyImages}
    \cup {[pg |-> 2, commit |-> TRUE, img |-> "zero_child"]}

SchemaFrameSeqs == UNION {[1..n -> SchemaFrameKinds] : n \in 0..MaxFrames}

\* the runs of validate on a database of three pages (the catalog, the leaf
\* of t with a rowid held twice, the leaf of the index) and a WAL whose
\* commits change the catalog; scenario keeps what the files were written from
InitSchema ==
    /\ scenario \in [cat : CatalogImages \ {"cat_i"}, keys : KeyImages, frames : SchemaFrameSeqs]
    /\ scenario.cat = "cat_far" => Len(scenario.frames) <= 1
    /\ wal_file = WalBytes(WAL_MAGIC_BE, DriverPageSize, FALSE, scenario.frames, 0, "none")
    /\ wal_facts = FactsOf(wal_file)
    /\ db_file = DataPage(scenario.cat) \o DataPage("dup") \o DataPage(scenario.keys)
    /\ iter = Unset
    /\ results = <<>>
    /\ page_cache = Unset
    /\ n_applied = 0
    /\ phase = "start"
    /\ DriverIdle
    /\ ScanOutputsIdle

NextDriver == Start \/ BasePass \/ OpenWal \/ NextCommit \/ CommitPass \/ MainExit

SpecDriver == InitDriver /\ [][NextDriver]_vars

SpecSchema == InitSchema /\ [][NextDriver]_vars

----------------------------------------------------------------------------
(* The scans: on a database of the scenarios a caller discovers the        *)
(* B-trees and collects from one of them, or runs one of the validators,   *)
(* or a pass of validate, on the base state.                               *)

\* the page cache validate makes for a database file
CacheOf(file, h) == PageCache_new(file, h.page_size, h.page_count)

InitScan ==
    /\ scenario \in Scenarios
    /\ db_file = ScanDbFile(scenario)
    /\ page_cache = CacheOf(db_file, DbHeader_from_file(db_file))
    /\ wal_file = <<>>
    /\ wal_facts = <<>>
    /\ iter = Unset
    /\ results = <<>>
    /\ n_applied = 0
    /\ phase = "scan"
    /\ DriverIdle
    /\ ScanOutputsIdle

\* BTreeScanner::discover_btrees is called
Discover ==
    /\ phase = "scan"
    /\ discovered' = discover_btrees(page_cache, db_file)
    /\ phase' = "discovered"
    /\ UNCHANGED <<wal_file, db_file, iter, results, page_cache, n_applied, wal_facts,
                   db_header, all_reports, total_commits, returned, exit_code, passes,
                   scenario, table_scan, key_scan, rowid_scan, rowid_issues, key_issues,
                   integrity_issues, scan_reports, intra, key_pair, probe>>

\* the root pages of the discovered tables (is_table) or indexes
RootsOf(is_table) ==
    IF discovered.ok
    THEN {discovered.btrees[i].root_page :
            i \in {j \in DOMAIN discovered.btrees : discovered.btrees[j].is_table = is_table}}
    ELSE {}

\* BTreeScanner::collect_table_rowids is called on a discovered table
CollectTableRowids ==
    /\ phase = "discovered"
    /\ \E root \in RootsOf(TRUE) :
          table_scan' = [root |-> root, r |-> collect_table_rowids(page_cache, db_file, root)]
    /\ phase' = "done"
    /\ UNCHANGED <<wal_file, db_file, iter, results, page_cache, n_applied, wal_facts,
                   db_header, all_reports, total_commits, returned, exit_code, passes,
                   scenario, discovered, key_scan, rowid_scan, rowid_issues, key_issues,
                   integrity_issues, scan_reports, intra, key_pair, probe>>

\* BTreeScanner::collect_index_keys is called on a discovered index
CollectIndexKeys ==
    /\ phase = "discovered"
    /\ \E root \in RootsOf(FALSE) :
          key_scan' = [root |-> root, r |-> collect_index_keys(page_cache, db_file, root)]
    /\ phase' = "done"
    /\ UNCHANGED <<wal_file, db_file, iter, results, page_cache, n_applied, wal_facts,
                   db_header, all_reports, total_commits, returned, exit_code, passes,
                   scenario, discovered, table_scan, rowid_scan, rowid_issues, key_issues,
                   integrity_issues, scan_reports, intra, key_pair, probe>>

\* BTreeScanner::collect_index_rowids is called on a discovered index
CollectIndexRowids ==
    /\ phase = "discovered"
    /\ \E root \in RootsOf(FALSE) :
          rowid_scan' = [root |-> root, r |-> collect_index_rowids(page_cache, db_file, root)]
    /\ phase' = "done"
    /\ UNCHANGED <<wal_file, db_file, iter, results, page_cache, n_applied, wal_facts,
                   db_header, all_reports, total_commits, returned, exit_code, passes,
                   scenario, discovered, table_scan, key_scan, rowid_issues, key_issues,
                   integrity_issues, scan_reports, intra, key_pair, probe>>

\* DuplicateRowidValidator::validate is called on the base state
ValidateDuplicateRowid ==
    /\ phase = "scan"
    /\ rowid_issues' = DuplicateRowidValidator_validate(page_cache, db_file, <<>>)
    /\ phase' = "done"
    /\ UNCHANGED <<wal_file, db_file, iter, results, page_cache, n_applied, wal_facts,
                   db_header, all_reports, total_commits, returned, exit_code, passes,
                   scenario, discovered, table_scan, key_scan, rowid_scan, key_issues,
                   integrity_issues, scan_reports, intra, key_pair, probe>>

\* DuplicateIndexKeyValidator::validate is called on the base state
ValidateDuplicateIndexKey ==
    /\ phase = "scan"
    /\ key_issues' = DuplicateIndexKeyValidator_validate(page_cache, db_file, <<>>)
    /\ phase' = "done"
    /\ UNCHANGED <<wal_file, db_file, iter, results, page_cache, n_applied, wal_facts,
                   db_header, all_reports, total_commits, returned, exit_code, passes,
                   scenario, discovered, table_scan, key_scan, rowid_scan, rowid_issues,
                   integrity_issues, scan_reports, intra, key_pair, probe>>

\* IndexIntegrityValidator::validate is called on the base state
ValidateIndexIntegrity ==
    /\ phase = "scan"
    /\ integrity_issues' = IndexIntegrityValidator_validate(page_cache, db_file, <<>>)
    /\ phase' = "done"
    /\ UNCHANGED <<wal_file, db_file, iter, results, page_cache, n_applied, wal_facts,
                   db_header, all_reports, total_commits, returned, exit_code, passes,
                   scenario, discovered, table_scan, key_scan, rowid_scan, rowid_issues,
                   key_issues, scan_reports, intra, key_pair, probe>>

\* the pass of lib.rs validate over the base state
ValidatePass ==
    /\ phase = "scan"
    /\ scan_reports' = scan_state(page_cache, db_file, <<>>, <<>>)
    /\ phase' = "done"
    /\ UNCHANGED <<wal_file, db_file, iter, results, page_cache, n_applied, wal_facts,
                   db_header, all_reports, total_commits, returned, exit_code, passes,
                   scenario, discovered, table_scan, key_scan, rowid_scan, rowid_issues,
                   key_issues, integrity_issues, intra, key_pair, probe>>

\* the configurations tried
Configs == {[check_indexes |-> b] : b \in BOOLEAN}

\* enabled_validators is called for a configuration and every validator it
\* returned is run on the base state
RunEnabledValidators ==
    /\ phase = "scan"
    /\ \E config \in Configs :
          probe' = [fn |-> "enabled_validators",
                    config |-> config,
                    validators |-> enabled_validators(config),
                    results |-> [i \in DOMAIN enabled_validators(config) |->
                                   Validator_validate(enabled_validators(config)[i],
                                                      page_cache, db_file, <<>>)]]
    /\ phase' = "done"
    /\ UNCHANGED <<wal_file, db_file, iter, results, page_cache, n_applied, wal_facts,
                   db_header, all_reports, total_commits, returned, exit_code, passes,
                   scenario, discovered, table_scan, key_scan, rowid_scan, rowid_issues,
                   key_issues, integrity_issues, scan_reports, intra, key_pair>>

\* the pages the frames of a WAL write, frame after frame: a page written
\* twice in a row, a page written again after another, pages written once
OverlayPageSeqs ==
    {<<2, 3>>, <<2, 2, 3, 6>>, <<4, 7, 4>>, <<3, 2, 3>>, <<5, 6, 7, 2>>}

\* where a frame leaves its mark on the page it writes: the middle of the
\* page, in the free area of every page of a scenario
MarkOffset == DriverPageSize \div 2

\* the page a frame writes: the page of the database file, marked with the
\* frame's index
MarkedPage(file, page_num, frame_index) ==
    [Slice(file, (page_num - 1) * DriverPageSize, page_num * DriverPageSize)
        EXCEPT ![MarkOffset + 1] = frame_index + 1]

\* the frame at frame_index, writing page_num
OverlayFrame(file, page_num, frame_index, db_size) ==
    [header |-> [ok |-> TRUE, page_number |-> page_num,
                 db_size_after_commit |-> db_size,
                 salt1 |-> 0, salt2 |-> 0,
                 checksum1 |-> <<0, 0>>, checksum2 |-> <<0, 0>>],
     page_data |-> MarkedPage(file, page_num, frame_index),
     frame_index |-> frame_index]

\* the commits of the frames: one commit of all the frames, or one commit
\* for each frame
OverlayCommits(file, pages, each) ==
    IF each
    THEN [i \in DOMAIN pages |->
            [index |-> i - 1,
             frames |-> <<OverlayFrame(file, pages[i], i - 1, ScanPageCount)>>,
             db_size |-> ScanPageCount]]
    ELSE <<[index |-> 0,
            frames |-> [i \in DOMAIN pages |->
                          OverlayFrame(file, pages[i], i - 1,
                                       IF i = Len(pages) THEN ScanPageCount ELSE 0)],
            db_size |-> ScanPageCount]>>

RECURSIVE ApplyCommits(_, _, _)
\* apply_commit for each of the commits from position i on
ApplyCommits(pc, commits, i) ==
    IF i > Len(commits) THEN pc
    ELSE ApplyCommits(apply_commit(pc, commits[i]), commits, i + 1)

\* the commits of a WAL are applied to the cache, then get_frame_index is
\* asked for every page and the table rooted at page 2 and the index rooted
\* at page 3 are collected
ApplyAndCollect ==
    /\ phase = "scan"
    /\ \E pages \in OverlayPageSeqs, each \in BOOLEAN :
          /\ page_cache' = ApplyCommits(page_cache, OverlayCommits(db_file, pages, each), 1)
          /\ probe' = [fn |-> "apply_and_collect",
                       pages |-> pages,
                       each |-> each,
                       frame_index |-> [p \in 0..ScanPageCount |->
                                          get_frame_index(page_cache', p)],
                       table |-> collect_table_rowids(page_cache', db_file, 2),
                       keys |-> collect_index_keys(page_cache', db_file, 3)]
    /\ phase' = "done"
    /\ UNCHANGED <<wal_file, db_file, iter, results, n_applied, wal_facts,
                   db_header, all_reports, total_commits, returned, exit_code, passes,
                   scenario, discovered, table_scan, key_scan, rowid_scan, rowid_issues,
                   key_issues, integrity_issues, scan_reports, intra, key_pair>>

\* the damage a frame does to the page it writes: the first cell pointer
\* names an offset past the page, or the last byte of the page; the page
\* type is unknown; the cell count runs the pointer array past the page; the
\* page becomes an interior page whose right child is the page itself, the
\* root of its tree, page 0, or a page past the end of the file
DamageKinds ==
    {"pointer_out", "pointer_last", "bad_type", "many_cells",
     "self_child", "root_child", "zero_child", "far_child"}

\* the pages a frame damages: the catalog, the roots and a leaf of each tree
DamagedPages == {1, 2, 3, 4, 6}

\* the root of the tree a page of a scenario belongs to
RootOf(page_num) == IF page_num \in {2, 4, 5} THEN 2 ELSE IF page_num = 1 THEN 1 ELSE 3

\* an interior page of the tree of page_num without cells, of the given right child
ChildOnlyPage(page_num, child) ==
    BTreePage(IF page_num = 1 THEN DbHeaderBytes(DriverPageSize, ScanPageCount) ELSE <<>>,
              IF RootOf(page_num) = 3 THEN 2 ELSE 5, BE32(child), <<>>, DriverPageSize)

\* the page a damaging frame writes over page_num
DamagedPage(file, page_num, kind) ==
    LET page == Slice(file, (page_num - 1) * DriverPageSize, page_num * DriverPageSize)
        offset == IF page_num = 1 THEN 100 ELSE 0
        at == offset + (IF page[offset + 1] \in {2, 5} THEN 12 ELSE 8)
    IN  CASE kind = "pointer_out" ->
               [page EXCEPT ![at + 1] = (DriverPageSize + 88) \div 256,
                            ![at + 2] = (DriverPageSize + 88) % 256]
          [] kind = "pointer_last" ->
               [page EXCEPT ![at + 1] = (DriverPageSize - 1) \div 256,
                            ![at + 2] = (DriverPageSize - 1) % 256]
          [] kind = "bad_type" -> [page EXCEPT ![offset + 1] = 7]
          [] kind = "many_cells" -> [page EXCEPT ![offset + 4] = 1, ![offset + 5] = 44]
          [] kind = "self_child" -> ChildOnlyPage(page_num, page_num)
          [] kind = "root_child" -> ChildOnlyPage(page_num, RootOf(page_num))
          [] kind = "zero_child" -> ChildOnlyPage(page_num, 0)
          [] kind = "far_child" -> ChildOnlyPage(page_num, ScanPageCount + 2)

\* the commit of one frame that writes the damaged page
DamagingCommit(file, page_num, kind) ==
    [index |-> 0,
     frames |-> <<[OverlayFrame(file, page_num, 0, ScanPageCount)
                      EXCEPT !.page_data = DamagedPage(file, page_num, kind)]>>,
     db_size |-> ScanPageCount]

\* a commit that damages a page is applied to the cache, then the catalog is
\* read and the table rooted at page 2 and the index rooted at page 3 are
\* collected
CollectDamaged ==
    /\ phase = "scan"
    /\ \E page_num \in DamagedPages, kind \in DamageKinds :
          /\ page_cache' = apply_commit(page_cache, DamagingCommit(db_file, page_num, kind))
          /\ probe' = [fn |-> "collect_damaged",
                       page_num |-> page_num,
                       kind |-> kind,
                       btrees |-> discover_btrees(page_cache', db_file),
                       table |-> collect_table_rowids(page_cache', db_file, 2),
                       keys |-> collect_index_keys(page_cache', db_file, 3),
                       rowids |-> collect_index_rowids(page_cache', db_file, 3)]
    /\ phase' = "done"
    /\ UNCHANGED <<wal_file, db_file, iter, results, n_applied, wal_facts,
                   db_header, all_reports, total_commits, returned, exit_code, passes,
                   scenario, discovered, table_scan, key_scan, rowid_scan, rowid_issues,
                   key_issues, integrity_issues, scan_reports, intra, key_pair>>

\* the validators of validators/, the unregistered one with them
ValidatorNames == {"duplicate-rowid", "duplicate-index-key", "index-integrity"}

\* Validator::validate of the named validator on the base state
ValidatorRun(validator, cache, file) ==
    IF validator = "index-integrity" THEN IndexIntegrityValidator_validate(cache, file, <<>>)
    ELSE Validator_validate(validator, cache, file, <<>>)

\* pages a validator reads through get_page: page 1 for the catalog, then
\* the root of every B-tree it discovered
PagesRead(cache, file) ==
    LET r == discover_btrees(cache, file) IN
    <<1>> \o (IF r.ok THEN [i \in DOMAIN r.btrees |-> r.btrees[i].root_page] ELSE <<>>)

\* the frames of a WAL are applied to the cache (or none), then one
\* validator is run twice on the shared cache
ValidateTwice ==
    /\ phase = "scan"
    /\ \E validator \in ValidatorNames, pages \in {<<>>, <<2, 2, 3, 6>>} :
          LET before == ApplyCommits(page_cache, OverlayCommits(db_file, pages, FALSE), 1)
              between == get_pages_self(before, db_file, PagesRead(before, db_file), 1)
          IN  /\ page_cache' = get_pages_self(between, db_file, PagesRead(between, db_file), 1)
              /\ probe' = [fn |-> "validate_twice",
                           validator |-> validator,
                           before |-> before,
                           first |-> ValidatorRun(validator, before, db_file),
                           second |-> ValidatorRun(validator, between, db_file)]
    /\ phase' = "done"
    /\ UNCHANGED <<wal_file, db_file, iter, results, n_applied, wal_facts,
                   db_header, all_reports, total_commits, returned, exit_code, passes,
                   scenario, discovered, table_scan, key_scan, rowid_scan, rowid_issues,
                   key_issues, integrity_issues, scan_reports, intra, key_pair>>

NextScan ==
    \/ ValidateTwice
    \/ CollectDamaged
    \/ ApplyAndCollect
    \/ RunEnabledValidators
    \/ Discover
    \/ CollectTableRowids
    \/ CollectIndexKeys
    \/ CollectIndexRowids
    \/ ValidateDuplicateRowid
    \/ ValidateDuplicateIndexKey
    \/ ValidateIndexIntegrity
    \/ ValidatePass

SpecScan == InitScan /\ [][NextScan]_vars

----------------------------------------------------------------------------
(* The calls of the functions of one entry or one record: is_intra_page on *)
(* a duplicate entry (one a validator returned, or any other), and         *)
(* extract_index_key on the records of two index entries.                  *)

\* the scenario whose table holds the rowids 5, 5 and 7 on one leaf
ScenarioTwice ==
    Scenario(<<TableRowT, CatalogRow(StrIndex, NameI, NameT, 3, <<SqlIndex>>)>>,
             <<(<<5, 5, 7>>)>>,
             IndexShape(<<(<<(<<11, 1>>), (<<12, 2>>), (<<13, 3>>)>>)>>, <<>>))

\* the most locations of an entry that is tried
MaxLocations == 3

\* the duplicate entries tried besides: a key with up to MaxLocations
\* locations on the pages 2 and 4
ProbeLocations == {RowidLocation(p, c, <<>>) : p \in {2, 4}, c \in 0..1}

ProbeEntries ==
    {[key |-> 5, locations |-> l] :
        l \in UNION {[1..n -> ProbeLocations] : n \in 0..MaxLocations}}

\* the duplicate entries of the issues a validator returned
EntriesOf(r) ==
    IF r.ok
    THEN UNION {r.issues[i].duplicate_details[1].entries : i \in DOMAIN r.issues}
    ELSE {}

\* the columns of the index records tried: one or two leading columns, and
\* a rowid column written in each of the ways SQLite writes a rowid (in
\* the serial type alone, in one byte, in two bytes)
RowidCols == {IntCol(n) : n \in {0, 1, 2, 3, -1}} \cup {[st |-> 2, bytes |-> <<1, 0>>]}

ProbeRecords ==
    {<<IntCol(v), r>> : v \in {0, 1, 11, 12}, r \in RowidCols}
    \cup {<<Text(t), IntCol(v), r>> : t \in {NameT, NameU}, v \in {1, 11}, r \in RowidCols}

InitCell ==
    /\ scenario = ScenarioTwice
    /\ db_file = ScanDbFile(scenario)
    /\ page_cache = CacheOf(db_file, DbHeader_from_file(db_file))
    /\ wal_file = <<>>
    /\ wal_facts = <<>>
    /\ iter = Unset
    /\ results = <<>>
    /\ n_applied = 0
    /\ phase = "cell"
    /\ DriverIdle
    /\ ScanOutputsIdle

\* is_intra_page is called on an entry of the issues of
\* DuplicateRowidValidator, or on another entry
IsIntraPage ==
    /\ phase = "cell"
    /\ \E e \in EntriesOf(DuplicateRowidValidator_validate(page_cache, db_file, <<>>))
                \cup ProbeEntries :
          intra' = [entry |-> e, result |-> is_intra_page(e)]
    /\ phase' = "done"
    /\ UNCHANGED <<wal_file, db_file, iter, results, page_cache, n_applied, wal_facts,
                   db_header, all_reports, total_commits, returned, exit_code, passes,
                   scenario, discovered, table_scan, key_scan, rowid_scan,
                   rowid_issues, key_issues, integrity_issues, scan_reports, key_pair, probe>>

\* extract_index_key is called on the records of two index entries
ExtractIndexKeys ==
    /\ phase = "cell"
    /\ \E a \in ProbeRecords, b \in ProbeRecords :
          key_pair' = [a |-> a, b |-> b,
                       key_a |-> extract_index_key(RecordBytes(a)),
                       key_b |-> extract_index_key(RecordBytes(b))]
    /\ phase' = "done"
    /\ UNCHANGED <<wal_file, db_file, iter, results, page_cache, n_applied, wal_facts,
                   db_header, all_reports, total_commits, returned, exit_code, passes,
                   scenario, discovered, table_scan, key_scan, rowid_scan,
                   rowid_issues, key_issues, integrity_issues, scan_reports, intra, probe>>

\* the integers tried as column values
ProbeValues ==
    {0, 1, 2, -1, -2, 127, 128, 255, 256, -128, -129, 32767, 32768, -32768, -32769,
     65536, 8388607, 8388608, -8388608, -8388609, 2147483647, -2147483647}

\* the widths in bytes of the integer serial types
IntWidth(st) == CASE st = 1 -> 1 [] st = 2 -> 2 [] st = 3 -> 3 [] st = 4 -> 4
                  [] st = 5 -> 6 [] st = 6 -> 8 [] OTHER -> 0

\* v is a value an integer column of serial type st can hold.  A column of
\* serial type 5 is tried with the values from 0 on only: what
\* read_int_column makes of six bytes of a negative value is 2^31 or more.
HoldsValue(st, v) ==
    CASE st = 1 -> v \in -128..127
      [] st = 2 -> v \in -32768..32767
      [] st = 3 -> v \in -8388608..8388607
      [] st = 4 -> TRUE
      [] st = 5 -> v >= 0
      [] st = 6 -> TRUE
      [] st = 8 -> v = 0
      [] st = 9 -> v = 1
      [] OTHER -> FALSE

RECURSIVE TwosBE(_, _)
\* the n big-endian bytes of the two's complement of v
TwosBE(v, n) == IF n = 0 THEN <<>> ELSE Append(TwosBE(v \div 256, n - 1), v % 256)

\* the column of serial type st that holds v
IntColumnOf(st, v) == [st |-> st, bytes |-> TwosBE(v, IntWidth(st))]

\* read_int_column on column 1 of the record parsed as r
ReadColumnOne(payload, r) == read_int_column(payload, r.serial_types, r.header_size, 1)

\* read_int_column is called on the second column of a record, an integer
\* column of one of the serial types 1..6, 8 and 9
ReadIntColumn ==
    /\ phase = "cell"
    /\ \E st \in (1..6) \cup {8, 9} : \E v \in {x \in ProbeValues : HoldsValue(st, x)} :
          probe' = [fn |-> "read_int_column", st |-> st, value |-> v,
                    bytes |-> IntColumnOf(st, v).bytes,
                    result |-> ReadColumnOne(RecordBytes(<<Text(NameT), IntColumnOf(st, v)>>),
                                  parse_record_header(
                                      RecordBytes(<<Text(NameT), IntColumnOf(st, v)>>)))]
    /\ phase' = "done"
    /\ UNCHANGED <<wal_file, db_file, iter, results, page_cache, n_applied, wal_facts,
                   db_header, all_reports, total_commits, returned, exit_code, passes,
                   scenario, discovered, table_scan, key_scan, rowid_scan,
                   rowid_issues, key_issues, integrity_issues, scan_reports, intra, key_pair>>

RECURSIVE ByteOf(_)
\* the number whose bits, the highest first, are given (at most 8 bits)
ByteOf(bits) ==
    IF bits = <<>> THEN 0 ELSE 2 * ByteOf(SubSeq(bits, 1, Len(bits) - 1)) + bits[Len(bits)]

\* the g-th group of seven bits (g in 1..8) of the lowest 56 bits of n
Group7(n, g) == ByteOf(SubSeq(n, 8 + 7 * (g - 1) + 1, 8 + 7 * g))

\* how many groups of seven bits a value below 2^56 takes: from its first
\* group that is not zero to the last, at least one
GroupsOf(n) ==
    IF \A g \in 1..8 : Group7(n, g) = 0 THEN 1
    ELSE 9 - (CHOOSE g \in 1..8 : Group7(n, g) # 0 /\ \A h \in 1..(g - 1) : Group7(n, h) = 0)

\* the SQLite varint of the u64 n (its 64 bits, the highest first), as the
\* engine writes it: a value of 2^56 or more takes nine bytes, the first
\* eight carrying the highest 56 bits seven by seven under a set high bit,
\* the ninth the lowest eight bits; a smaller value takes its groups of
\* seven bits, the high bit set on all but the last
PutVarint(n) ==
    IF \E i \in 1..8 : n[i] = 1
    THEN [j \in 1..9 |-> IF j = 9 THEN ByteOf(SubSeq(n, 57, 64))
                          ELSE 128 + ByteOf(SubSeq(n, 7 * (j - 1) + 1, 7 * j))]
    ELSE [j \in 1..GroupsOf(n) |->
            (IF j = GroupsOf(n) THEN 0 ELSE 128) + Group7(n, 8 - GroupsOf(n) + j)]

\* the u64 values tried: one bit set, the lowest k bits set, the highest
\* bit and the lowest k bits set, and every second bit set
ProbeU64 ==
    {[i \in 1..64 |-> IF i = 64 - k THEN 1 ELSE 0] : k \in 0..63}
    \cup {[i \in 1..64 |-> IF i > 64 - k THEN 1 ELSE 0] : k \in 0..64}
    \cup {[i \in 1..64 |-> IF i > 64 - k \/ i = 1 THEN 1 ELSE 0] : k \in {0, 7, 8, 56}}
    \cup {[i \in 1..64 |-> (i + b) % 2] : b \in 0..1}

\* the u64 n is below 2^31
BelowTwo31(n) == \A i \in 1..33 : n[i] = 0

RECURSIVE IntOf(_)
\* the integer of a u64 below 2^31
IntOf(bits) ==
    IF bits = <<>> THEN 0 ELSE 2 * IntOf(SubSeq(bits, 1, Len(bits) - 1)) + bits[Len(bits)]

\* parse_varint is called on the varint of a u64 followed by the bytes rest,
\* or on no byte at all
ParseVarint ==
    /\ phase = "cell"
    /\ \/ \E n \in ProbeU64 : \E rest \in {<<>>, <<129, 2>>} :
             probe' = [fn |-> "parse_varint", n |-> <<n>>,
                       data |-> PutVarint(n) \o rest,
                       result64 |-> parse_varint64(PutVarint(n) \o rest),
                       result |-> IF BelowTwo31(n) THEN <<parse_varint(PutVarint(n) \o rest)>>
                                  ELSE <<>>]
       \/ probe' = [fn |-> "parse_varint", n |-> <<>>, data |-> <<>>,
                    result64 |-> parse_varint64(<<>>), result |-> <<parse_varint(<<>>)>>]
    /\ phase' = "done"
    /\ UNCHANGED <<wal_file, db_file, iter, results, page_cache, n_applied, wal_facts,
                   db_header, all_reports, total_commits, returned, exit_code, passes,
                   scenario, discovered, table_scan, key_scan, rowid_scan,
                   rowid_issues, key_issues, integrity_issues, scan_reports, intra, key_pair>>

\* the 16-bit values tried as the stored page size: 0, the powers of two
\* below 2^16, their neighbours, and some values between
StoredPageSizes ==
    {0, 768, 1000, 1536, 4097, 49152, 65535}
    \cup UNION {{2 ^ k - 1, 2 ^ k, 2 ^ k + 1} : k \in 0..15}

\* the first 16 bytes tried: the magic, and the magic with its first, its
\* tenth or its last byte changed
ProbeMagics ==
    {SQLITE_MAGIC} \cup {[SQLITE_MAGIC EXCEPT ![k] = (@ + 1) % 256] : k \in {1, 10, 16}}

\* DbHeader::parse is called on 100 bytes
ParseDbHeader ==
    /\ phase = "cell"
    /\ \E magic \in ProbeMagics, stored \in StoredPageSizes, rest \in {0, 127} :
          probe' = [fn |-> "DbHeader::parse", magic |-> magic, stored |-> stored,
                    result |-> DbHeader_parse(magic \o BE16(stored) \o BE32(2)
                                              \o [i \in 1..78 |-> rest])]
    /\ phase' = "done"
    /\ UNCHANGED <<wal_file, db_file, iter, results, page_cache, n_applied, wal_facts,
                   db_header, all_reports, total_commits, returned, exit_code, passes,
                   scenario, discovered, table_scan, key_scan, rowid_scan,
                   rowid_issues, key_issues, integrity_issues, scan_reports, intra, key_pair>>

\* the WAL headers whose checksum function is tried: either magic, two page
\* sizes
ProbeHeaders ==
    {WalHeader_parse(WalHeaderBytes(magic, page_size, FALSE)) :
        magic \in {WAL_MAGIC_BE, WAL_MAGIC_LE}, page_size \in {SmallPageSize, DriverPageSize}}

\* the seeds tried: (0, 0), (0xffffffff, 0xffffffff) and (0x12345678, 0x00010000)
ProbeSeeds ==
    {Seed00, <<(<<65535, 65535>>), (<<65535, 65535>>)>>, <<(<<4660, 22136>>), (<<1, 0>>)>>}

\* the data tried: no, one, two or three chunks of 8 bytes, with and without
\* bytes after the last chunk; rising bytes, bytes of 255, mixed bytes
ProbeData ==
    {[j \in 1..n |-> CASE kind = 1 -> j
                       [] kind = 2 -> 255
                       [] OTHER -> (37 * j + 200) % 256] :
        n \in {0, 7, 8, 9, 15, 16, 17, 24, 26}, kind \in 1..3}

\* WalHeader::checksum is called
Checksum ==
    /\ phase = "cell"
    /\ \E hdr \in ProbeHeaders, data \in ProbeData, initial \in ProbeSeeds :
          probe' = [fn |-> "checksum", hdr |-> hdr, data |-> data, initial |-> initial,
                    result |-> checksum(hdr, data, initial)]
    /\ phase' = "done"
    /\ UNCHANGED <<wal_file, db_file, iter, results, page_cache, n_applied, wal_facts,
                   db_header, all_reports, total_commits, returned, exit_code, passes,
                   scenario, discovered, table_scan, key_scan, rowid_scan,
                   rowid_issues, key_issues, integrity_issues, scan_reports, intra, key_pair>>

NextCell ==
    \/ Checksum
    \/ ParseDbHeader
    \/ ParseVarint
    \/ IsIntraPage
    \/ ExtractIndexKeys
    \/ ReadIntColumn

SpecCell == InitCell /\ [][NextCell]_vars

----------------------------------------------------------------------------
(* Abbreviations used to state the claims. *)

\* the commits the consumer has got so far
Commits == CommitsOf(results)

RECURSIVE FramesOf(_)
\* the frames of a sequence of commits, in order
FramesOf(cs) ==
    IF cs = <<>> THEN <<>>
    ELSE FramesOf(SubSeq(cs, 1, Len(cs) - 1)) \o cs[Len(cs)].frames

EmittedFrames == FramesOf(Commits)

AppliedFrames == FramesOf(SubSeq(Commits, 1, n_applied))

\* the iterator has ended: some call of next returned None or an error
Ended == \E i \in DOMAIN results : results[i].tag # "Commit"

----------------------------------------------------------------------------
(* C1: after the commits got so far have been applied in order, get_page(p) *)
(* returns the payload of the applied frame of the highest frame index     *)
(* among those written for page p (also when one commit holds several      *)
(* frames for p), and the page of the base file when no applied frame      *)
(* wrote p.                                                                *)

WritersOf(p) == {i \in DOMAIN AppliedFrames : AppliedFrames[i].header.page_number = p}

LatestWriter(p) ==
    CHOOSE i \in WritersOf(p) :
        \A j \in WritersOf(p) : AppliedFrames[j].frame_index <= AppliedFrames[i].frame_index

InBaseFile(p) == p >= 1 /\ p * page_cache.page_size <= Len(db_file)

BasePage(p) == Slice(db_file, (p - 1) * page_cache.page_size, p * page_cache.page_size)

C1_LatestWriterWins ==
    \A p \in 0..3 :
        LET got == get_page(page_cache, db_file, p) IN
        /\ WritersOf(p) # {} => got.ok /\ got.page = AppliedFrames[LatestWriter(p)].page_data
        /\ WritersOf(p) = {} /\ InBaseFile(p) => got.ok /\ got.page = BasePage(p)

\* a commit applied that holds two frames for page 2, the second of which is
\* the page read, and page 1 still read from the base file
C1_Witness ==
    /\ n_applied = 1
    /\ Len(Commits[1].frames) = 2
    /\ \A i \in DOMAIN AppliedFrames : AppliedFrames[i].header.page_number = 2
    /\ get_page(page_cache, db_file, 2).page = Commits[1].frames[2].page_data
    /\ get_page(page_cache, db_file, 2).page # Commits[1].frames[1].page_data
    /\ get_page(page_cache, db_file, 1).page = BasePage(1)

\* two commits applied, the second overwriting the page of the first
C1_WitnessTwoCommits ==
    /\ n_applied = 2
    /\ Commits[1].frames[1].header.page_number = 1
    /\ Commits[2].frames[1].header.page_number = 1
    /\ get_page(page_cache, db_file, 1).page = Commits[2].frames[1].page_data

----------------------------------------------------------------------------
(* C2: the n-th commit emitted by the iterator, counting from 0, carries   *)
(* index n: the indices are 0, 1, 2, ... with no gap and no repeat.        *)

C2_CommitIndices == \A n \in DOMAIN Commits : Commits[n].index = n - 1

\* two commits emitted
C2_Witness == Len(Commits) = 2 /\ Commits[2].index = 1

----------------------------------------------------------------------------
(* C3: every emitted commit is non-empty, exactly its last frame is        *)
(* commit-marked and the commit's db_size is that frame's value; the       *)
(* emitted frames are the frames of the file in file order, their frame    *)
(* indices running 0, 1, 2, ... across commit boundaries.                  *)

C3_CommitShape ==
    /\ \A n \in DOMAIN Commits :
          LET fs == Commits[n].frames IN
          /\ Len(fs) >= 1
          /\ \A j \in DOMAIN fs : fs[j].header.db_size_after_commit # 0 <=> j = Len(fs)
          /\ Commits[n].db_size = fs[Len(fs)].header.db_size_after_commit
    /\ \A i \in DOMAIN EmittedFrames :
          /\ EmittedFrames[i].frame_index = i - 1
          /\ EmittedFrames[i].header = FrameHeaderOf(wal_file, i - 1)
          /\ EmittedFrames[i].page_data = FramePage(wal_file, i - 1)

\* two commits, the frame of the second carrying frame index 1
C3_Witness ==
    /\ Len(Commits) = 2
    /\ Commits[2].frames[1].frame_index = 1

\* a commit of two frames
C3_WitnessTwoFrames ==
    /\ Len(Commits) = 1
    /\ Len(Commits[1].frames) = 2
    /\ Commits[1].frames[1].header.db_size_after_commit = 0

----------------------------------------------------------------------------
(* C4: the iterator emits one commit for each commit-marked frame of the   *)
(* valid frame prefix and nothing else: never more commits than that, and  *)
(* exactly that many once it has ended, made of the frames up to the last  *)
(* commit-marked one; a file of no frames yields only None; frames after   *)
(* the last commit-marked frame yield no commit and no error, an error     *)
(* being returned only for a wrong checksum.                               *)

\* 1 + the index of the last commit-marked frame of the valid prefix, or 0
CommittedLength ==
    IF wal_facts.commit_frames = {} THEN 0
    ELSE 1 + CHOOSE i \in wal_facts.commit_frames : \A j \in wal_facts.commit_frames : j <= i

C4_OneCommitPerCommitFrame ==
    iter.ok =>
        /\ Len(Commits) <= Cardinality(wal_facts.commit_frames)
        /\ Ended =>
              /\ Len(Commits) = Cardinality(wal_facts.commit_frames)
              /\ Len(EmittedFrames) = CommittedLength
        /\ Len(wal_file) = 32 => \A i \in DOMAIN results : results[i].tag = "None"
        /\ wal_facts.end # "checksum" => \A i \in DOMAIN results : results[i].tag # "Err"

\* a file whose two frames are valid, the first commit-marked and the second
\* not: one commit, then None
C4_Witness ==
    /\ iter.ok
    /\ Len(results) = 3
    /\ wal_facts.valid_prefix = 2
    /\ wal_facts.commit_frames = {0}
    /\ Len(wal_file) = FrameOffset(wal_file, 2)
    /\ results[1].tag = "Commit"
    /\ results[2].tag = "None"

\* a file of no frames: None
C4_WitnessNoFrames ==
    /\ iter.ok
    /\ Len(wal_file) = 32
    /\ Len(results) = 2

----------------------------------------------------------------------------
(* C5, as stated: when the first frame whose rolling checksum is not its   *)
(* stored checksum has index k, next returns Err(ChecksumMismatch{k}),     *)
(* every later call returns None and no frame k or later is emitted.       *)

ChecksumError(k) == [tag |-> "Err", err |-> [kind |-> "ChecksumMismatch", frame_index |-> k]]

C5_AsStated ==
    iter.ok /\ wal_facts.first_checksum_bad >= 0 /\ Ended =>
        /\ \E i \in DOMAIN results :
              /\ results[i] = ChecksumError(wal_facts.first_checksum_bad)
              /\ \A j \in DOMAIN results : j > i => results[j].tag = "None"
        /\ \A i \in DOMAIN EmittedFrames :
              EmittedFrames[i].frame_index < wal_facts.first_checksum_bad

(* C5, amended: when the frames 0..k-1 are valid and frame k is complete,  *)
(* carries the header's salts and has a wrong checksum, the call of next   *)
(* that reaches frame k returns Err(ChecksumMismatch{k}), every later call *)
(* returns None and no frame k or later is emitted; next returns no other  *)
(* error.                                                                  *)

C5_ChecksumMismatchTerminal ==
    iter.ok =>
        /\ \A i \in DOMAIN results :
              results[i].tag = "Err" =>
                  /\ wal_facts.end = "checksum"
                  /\ results[i] = ChecksumError(wal_facts.valid_prefix)
                  /\ \A j \in DOMAIN results : j > i => results[j].tag = "None"
        /\ wal_facts.end = "checksum" =>
              /\ Ended => \E i \in DOMAIN results : results[i].tag = "Err"
              /\ \A i \in DOMAIN EmittedFrames :
                    EmittedFrames[i].frame_index < wal_facts.valid_prefix

\* a commit, then the checksum error at frame 1, then None twice
C5_Witness ==
    /\ Len(results) = 4
    /\ results[1].tag = "Commit"
    /\ results[2] = ChecksumError(1)
    /\ results[3].tag = "None"
    /\ results[4].tag = "None"

\* the checksum error at frame 1 with frame 0 pending, then None
C5_WitnessPending ==
    /\ Len(results) = 2
    /\ results[1] = ChecksumError(1)
    /\ Len(iter.pending_frames) = 1
    /\ results[2].tag = "None"

----------------------------------------------------------------------------
(* C7: when the valid prefix ends at a frame that is truncated or absent,  *)
(* or whose salt1 or salt2 is not the header's (even if its checksum is    *)
(* wrong too), next returns None there and never an error, None again on   *)
(* every later call, and neither the pending frames nor any frame at or    *)
(* after that one is ever emitted.                                         *)

C7_CleanEnd ==
    iter.ok /\ wal_facts.end \in {"truncated", "salt"} =>
        /\ \A i \in DOMAIN results :
              /\ results[i].tag # "Err"
              /\ results[i].tag = "None" =>
                    \A j \in DOMAIN results : j > i => results[j].tag = "None"
        /\ Len(EmittedFrames) <= CommittedLength
        /\ Ended => Len(EmittedFrames) = CommittedLength

\* a valid frame left pending, then a frame of another salt1 and of a wrong
\* checksum: None twice
C7_Witness ==
    /\ iter.ok
    /\ wal_facts.end = "salt"
    /\ wal_facts.valid_prefix = 1
    /\ wal_facts.commit_frames = {}
    /\ FrameComplete(wal_file, 1)
    /\ ~ChecksumMatches(wal_file, 1)
    /\ Len(iter.pending_frames) = 1
    /\ Len(results) = 2
    /\ results[1].tag = "None"
    /\ results[2].tag = "None"

\* the same for a truncated last frame whose stored checksum is wrong
C7_WitnessTruncated ==
    /\ iter.ok
    /\ wal_facts.end = "truncated"
    /\ FrameHeaderComplete(wal_file, wal_facts.valid_prefix)
    /\ wal_facts.valid_prefix = 1
    /\ wal_facts.commit_frames = {0}
    /\ Len(results) = 3
    /\ results[1].tag = "Commit"
    /\ results[3].tag = "None"

----------------------------------------------------------------------------
(* C8, as stated: every WAL header that WalHeader::parse (and so           *)
(* CommitIterator::new) accepts has one of the two magic words and stored  *)
(* checksum words equal to the checksum of its bytes [0,24) seeded (0,0).  *)

C8_AcceptedHeaderValid ==
    iter.ok =>
        /\ iter.wal_header.magic \in {WAL_MAGIC_BE, WAL_MAGIC_LE}
        /\ <<iter.wal_header.checksum1, iter.wal_header.checksum2>>
               = checksum(iter.wal_header, Slice(wal_file, 0, 24), Seed00)

----------------------------------------------------------------------------
(* Abbreviations used to state the claims about validate and main.         *)

\* validate has returned
ValidateReturned == phase \in {"returned", "exited"}

\* no pass run so far ended with an error
AllPassesOk == \A j \in DOMAIN passes : passes[j].ok

\* the page number frame i of the WAL file is written for
PageOf(i) == FrameHeaderOf(wal_file, i).page_number

\* for every page written by the frames 0..e of the WAL file, the last of
\* these frames that writes it
LatestUpTo(e) ==
    [p \in {PageOf(i) : i \in 0..e} |->
        CHOOSE i \in 0..e : PageOf(i) = p /\ \A j \in 0..e : PageOf(j) = p => j <= i]

\* the n-th commit-marked frame of the valid prefix, counted from 1
NthCommitFrame(n) ==
    CHOOSE i \in wal_facts.commit_frames :
        Cardinality({j \in wal_facts.commit_frames : j < i}) = n - 1

\* the base file whose table holds no rowid twice
CleanDb == CatalogPage \o DataPage("clean")

----------------------------------------------------------------------------
(* C4, for validate: on a base file without duplicates and a WAL file of a *)
(* header and no frame, written for the page size of the base file,        *)
(* validate returns Ok with no report and 0 commits, and main exits with   *)
(* status 0.                                                               *)

C4_ZeroFramesValidate ==
    (/\ db_file = CleanDb
     /\ wal_facts.header_ok
     /\ Len(wal_file) = 32
     /\ WalPageSize(wal_file) = DriverPageSize
     /\ ValidateReturned) =>
        /\ returned = [tag |-> "Ok", reports |-> <<>>, total_commits |-> 0]
        /\ Len(passes) = 1
        /\ phase = "exited" => exit_code = 0

C4_WitnessZeroFrames ==
    /\ db_file = CleanDb
    /\ wal_facts.header_ok
    /\ Len(wal_file) = 32
    /\ phase = "exited"
    /\ exit_code = 0
    /\ results = <<[tag |-> "None"]>>

----------------------------------------------------------------------------
(* C6: when the frames before frame k are valid and one byte of the page   *)
(* data of frame k is changed, every error CommitIterator::next returns is *)
(* ChecksumMismatch{frame_index: k}; validate never returns Ok, and unless *)
(* it has failed before next reached frame k (the header of the base file, *)
(* or a pass over an earlier state) it returns that error, the last thing  *)
(* next returned; main then exits with status 1; and no pass is run and no *)
(* report is pushed for the commit that holds frame k or for a later one.  *)

C6_CorruptPageByte ==
    (wal_facts.header_ok /\ wal_facts.one_byte_off) =>
        /\ \A j \in DOMAIN results :
              results[j].tag = "Err" => results[j] = ChecksumError(wal_facts.valid_prefix)
        /\ \A j \in DOMAIN passes :
              \/ passes[j].commit_index = <<>>
              \/ passes[j].commit_index[1] < Cardinality(wal_facts.commit_frames)
        /\ \A j \in DOMAIN all_reports :
              \/ all_reports[j].commit_index = <<>>
              \/ all_reports[j].commit_index[1] < Cardinality(wal_facts.commit_frames)
        /\ ValidateReturned =>
              /\ returned.tag = "Err"
              /\ (db_header.ok /\ AllPassesOk) =>
                    /\ results # <<>>
                    /\ results[Len(results)] = ChecksumError(wal_facts.valid_prefix)
                    /\ returned.err = results[Len(results)].err
        /\ phase = "exited" => exit_code = 1

\* commit 0 is one frame carrying a page that holds a rowid twice, a byte of
\* the page of frame 1 is changed: the pass for commit 0 pushed a report,
\* next then returned the error, validate returned it and main exited with 1
C6_Witness ==
    /\ wal_facts.header_ok
    /\ wal_facts.one_byte_off
    /\ wal_facts.valid_prefix = 1
    /\ wal_facts.commit_frames = {0}
    /\ phase = "exited"
    /\ exit_code = 1
    /\ returned = ChecksumError(1)
    /\ Len(passes) = 2
    /\ passes[2].pushed # <<>>
    /\ results = <<[tag |-> "Commit", commit |-> results[1].commit], ChecksumError(1)>>

\* the changed byte is in the commit frame of a commit of two frames: no
\* commit is emitted and the base pass is the only pass
C6_WitnessInsideCommit ==
    /\ wal_facts.header_ok
    /\ wal_facts.one_byte_off
    /\ wal_facts.valid_prefix = 1
    /\ wal_facts.commit_frames = {}
    /\ CommitMarked(wal_file, 1)
    /\ phase = "exited"
    /\ returned = ChecksumError(1)
    /\ Len(passes) = 1

----------------------------------------------------------------------------
(* C9: when the header of the base file parses, the WAL header is accepted *)
(* and its page size is not that of the base file, validate never asks the *)
(* iterator for a commit and applies none: the overlay stays empty, the    *)
(* base pass is the only pass and every report is one of the base state;   *)
(* validate never returns Ok, and when the base pass raised no error it    *)
(* returns PageSizeMismatch with the two sizes.                            *)

C9_PageSizeMismatch ==
    (/\ phase # "start"
     /\ db_header.ok
     /\ wal_facts.header_ok
     /\ WalPageSize(wal_file) # db_header.page_size) =>
        /\ results = <<>>
        /\ n_applied = 0
        /\ total_commits = 0
        /\ DOMAIN page_cache.overlay = {}
        /\ Len(passes) <= 1
        /\ \A j \in DOMAIN passes : passes[j].commit_index = <<>>
        /\ \A j \in DOMAIN all_reports : all_reports[j].commit_index = <<>>
        /\ phase \notin {"loop", "scan"}
        /\ ValidateReturned =>
              /\ returned.tag = "Err"
              /\ AllPassesOk =>
                    returned.err = [kind |-> "PageSizeMismatch",
                                    db_size |-> db_header.page_size,
                                    wal_size |-> WalPageSize(wal_file)]

\* a WAL of one commit written for pages of 1024 bytes, a base file of pages
\* of 512 bytes that holds a rowid twice: the base pass pushed its report,
\* validate returned the error and main exited with 1
C9_Witness ==
    /\ wal_facts.header_ok
    /\ WalPageSize(wal_file) = 2 * DriverPageSize
    /\ Len(wal_file) > 32
    /\ CommitMarked(wal_file, 0)
    /\ db_header.ok
    /\ db_header.page_size = DriverPageSize
    /\ phase = "exited"
    /\ exit_code = 1
    /\ returned.tag = "Err"
    /\ returned.err.kind = "PageSizeMismatch"
    /\ returned.err.db_size = 512
    /\ returned.err.wal_size = 1024
    /\ Len(passes) = 1
    /\ Len(all_reports) = 1

----------------------------------------------------------------------------
(* C10: the passes run in the order base, commit 0, commit 1, ...: the     *)
(* first pass is given None and scans the empty overlay; the pass after it *)
(* that is the (i+1)-th is given Some(i) and scans the overlay in which    *)
(* every page written by the frames up to the commit frame of commit i     *)
(* holds the last of these frames, and no later frame; no pass runs for    *)
(* frames after the last commit frame of the valid prefix; every report a  *)
(* pass pushes carries the commit index the pass was given, and            *)
(* all_reports holds the reports in the order of the passes.               *)

C10_PassOrder ==
    /\ Len(passes) <= 1 + (IF wal_facts.header_ok
                           THEN Cardinality(wal_facts.commit_frames) ELSE 0)
    /\ \A j \in DOMAIN passes :
          /\ passes[j].commit_index = IF j = 1 THEN <<>> ELSE <<j - 2>>
          /\ passes[j].frames = IF j = 1 THEN <<>> ELSE LatestUpTo(NthCommitFrame(j - 1))
          /\ \A n \in DOMAIN passes[j].pushed :
                passes[j].pushed[n].commit_index = passes[j].commit_index
    /\ all_reports = Flatten([j \in DOMAIN passes |-> passes[j].pushed])
    /\ phase = "scan" =>
          /\ total_commits = Len(passes)
          /\ \A p \in DOMAIN page_cache.overlay :
                page_cache.overlay[p] =
                    <<FramePage(wal_file, LatestUpTo(NthCommitFrame(total_commits))[p]),
                      LatestUpTo(NthCommitFrame(total_commits))[p]>>

\* two commits of one frame each for page 2, each page holding a rowid
\* twice, over a base file that does so too: three passes, the reports of
\* which carry None, Some(0) and Some(1), and the third pass saw frame 1
C10_Witness ==
    /\ Len(passes) = 3
    /\ passes[3].frames = (2 :> 1)
    /\ passes[2].frames = (2 :> 0)
    /\ Len(all_reports) = 3
    /\ all_reports[1].commit_index = <<>>
    /\ all_reports[2].commit_index = <<0>>
    /\ all_reports[3].commit_index = <<1>>
    /\ returned.tag = "Ok"
    /\ exit_code = 2

\* a commit, then a frame that is not a commit frame and carries a page
\* holding a rowid twice: the frame is never applied and never scanned
C10_WitnessTrailingFrame ==
    /\ wal_facts.header_ok
    /\ wal_facts.valid_prefix = 2
    /\ wal_facts.commit_frames = {0}
    /\ db_file = CleanDb
    /\ PageOf(0) = 2
    /\ FramePage(wal_file, 0) = DataPage("clean")
    /\ FramePage(wal_file, 1) = DataPage("dup")
    /\ phase = "exited"
    /\ exit_code = 0
    /\ Len(passes) = 2
    /\ passes[2].frames = (2 :> 0)

\* a commit of two frames for two pages: its pass scans both frames
C10_WitnessTwoFrames ==
    /\ Len(passes) = 2
    /\ passes[2].ok
    /\ passes[2].frames = (2 :> 0) @@ (3 :> 1)

----------------------------------------------------------------------------
(* What a scenario holds, read off the scenario and not off the bytes of   *)
(* the file.  These definitions state the claims; they model no code.      *)

\* the page of the n-th leaf of the table tree and of the index tree
TableLeafNo(sc, n) == IF Len(sc.table) = 1 THEN 2 ELSE 3 + n
IndexLeafNo(sc, n) == IF Len(sc.index.leaves) = 1 THEN 3 ELSE 5 + n

\* the leaf cells of the table t: <<rowid, location>>
TableCells(sc) ==
    UNION {{<<sc.table[l][c], RowidLocation(TableLeafNo(sc, l), c - 1, <<>>)>> :
              c \in DOMAIN sc.table[l]} : l \in DOMAIN sc.table}

\* the rowids of the rows of the table t
RowidsOfTable(sc) == {x[1] : x \in TableCells(sc)}

\* the leaf cells of the table tree rooted at root: the tree of t, or a
\* single leaf
CellsUnder(sc, root) ==
    IF root = 2 THEN TableCells(sc)
    ELSE {x \in TableCells(sc) : x[2].page_number = root}

\* the rowids held by more than one leaf cell of a set
HeldTwice(cells) == {x[1] : x \in {y \in cells : \E z \in cells : z[1] = y[1] /\ z # y}}

\* the root pages of the table trees the catalog names
TableRoots(sc) ==
    {sc.rows[i].rootpage : i \in {j \in DOMAIN sc.rows :
                                    sc.rows[j].type = StrTable /\ sc.rows[j].rootpage > 0}}

\* the rows of t have pairwise distinct rowids
DistinctRowids(sc) == Cardinality(RowidsOfTable(sc)) = Cardinality(TableCells(sc))

\* every row of the catalog stores a root page that is no negative number
PlainCatalog(sc) == \A i \in DOMAIN sc.rows : sc.rows[i].rootpage >= 0

\* the issues a validator returned that are located at the B-tree rooted at root
IssuesAt(r, root) == {i \in DOMAIN r.issues : r.issues[i].location.root_page = root}

\* C11: for a table tree whose rows have pairwise distinct rowids,
\* collect_table_rowids(root) returns one entry for each leaf cell reachable
\* from the root through left-child and right-child pointers, carrying the
\* rowid of the cell, and so exactly the set of rowids of the table;
\* DuplicateRowidValidator returns no issue for the table, and a pass of
\* validate pushes no report for it.
C11_DistinctRowidsCollected ==
    DistinctRowids(scenario) =>
        /\ (table_scan # <<>> /\ table_scan.root = 2) =>
              /\ table_scan.r.ok
              /\ HashSetOf(table_scan.r.entries) = TableCells(scenario)
              /\ Len(table_scan.r.entries) = Cardinality(TableCells(scenario))
              /\ {table_scan.r.entries[i][1] : i \in DOMAIN table_scan.r.entries}
                    = RowidsOfTable(scenario)
        /\ (rowid_issues # Unset /\ PlainCatalog(scenario)) => rowid_issues.ok
        /\ rowid_issues.ok => IssuesAt(rowid_issues, 2) = {}
        /\ (scan_reports # Unset /\ PlainCatalog(scenario)) => scan_reports.ok
        /\ scan_reports.ok =>
              \A i \in DOMAIN scan_reports.reports :
                  ~(scan_reports.reports[i].btree_root = 2
                    /\ scan_reports.reports[i].duplicate_type = "TableRowid")

\* the four distinct rowids of a table whose root is an interior page have
\* been collected from its two leaves
C11_Witness ==
    /\ scenario.table = <<(<<1, 2>>), (<<3, 4>>)>>
    /\ table_scan # <<>>
    /\ table_scan.root = 2
    /\ table_scan.r.ok
    /\ Len(table_scan.r.entries) = 4
    /\ \E i \in DOMAIN table_scan.r.entries : table_scan.r.entries[i][2].page_number = 4
    /\ \E i \in DOMAIN table_scan.r.entries : table_scan.r.entries[i][2].page_number = 5

\* DuplicateRowidValidator has returned no issue for a table of distinct rowids
C11_WitnessNoIssue ==
    /\ DistinctRowids(scenario)
    /\ rowid_issues.ok
    /\ rowid_issues.issues = <<>>

\* a pass of validate has pushed no report for a table of distinct rowids
C11_WitnessValidate ==
    /\ DistinctRowids(scenario)
    /\ scan_reports.ok
    /\ \A i \in DOMAIN scan_reports.reports : scan_reports.reports[i].btree_root # 2

\* C12: a pass of DuplicateRowidValidator that returns its issues returns
\* exactly one issue, of severity Error and located at the table, for each
\* table tree in which some rowid occurs more than once, and no issue for
\* any other B-tree; the issue holds exactly one entry for each rowid that
\* occurs more than once, and the locations of the entry are the leaf cells
\* that hold the rowid, each once.
C12_OneIssuePerDuplicatedTable ==
    /\ (rowid_issues # Unset /\ PlainCatalog(scenario)) => rowid_issues.ok
    /\ rowid_issues.ok =>
          /\ \A root \in TableRoots(scenario) :
                Cardinality(IssuesAt(rowid_issues, root))
                    = IF HeldTwice(CellsUnder(scenario, root)) = {} THEN 0 ELSE 1
          /\ \A i \in DOMAIN rowid_issues.issues :
                LET issue == rowid_issues.issues[i]
                    cells == CellsUnder(scenario, issue.location.root_page)
                    entries == issue.duplicate_details[1].entries
                IN  /\ issue.severity = "Error"
                    /\ issue.location.kind = "Table"
                    /\ issue.location.root_page \in TableRoots(scenario)
                    /\ issue.duplicate_details[1].kind = "Rowid"
                    /\ {e.key : e \in entries} = HeldTwice(cells)
                    /\ Cardinality(entries) = Cardinality(HeldTwice(cells))
                    /\ \A e \in entries :
                          /\ HashSetOf(e.locations) = {x[2] : x \in {y \in cells : y[1] = e.key}}
                          /\ Len(e.locations) = Cardinality(HashSetOf(e.locations))

\* two tables hold duplicates and each got its issue: t holds rowid 2 on
\* both leaves (three times) and rowid 3 twice, u holds rowid 3 twice
C12_Witness ==
    /\ rowid_issues.ok
    /\ Len(rowid_issues.issues) = 2
    /\ \E i \in DOMAIN rowid_issues.issues :
          /\ rowid_issues.issues[i].location.root_page = 2
          /\ \E e \in rowid_issues.issues[i].duplicate_details[1].entries :
                e.key = 2 /\ Len(e.locations) = 3
    /\ \E i \in DOMAIN rowid_issues.issues : rowid_issues.issues[i].location.root_page = 5

\* a table without duplicates beside a catalog that names two tables: no issue
C12_WitnessNone ==
    /\ rowid_issues.ok
    /\ rowid_issues.issues = <<>>
    /\ Cardinality(TableRoots(scenario)) = 2

\* the pages of the locations of a duplicate entry
PagesOf(entry) == {entry.locations[i].page_number : i \in DOMAIN entry.locations}

\* the entries DuplicateRowidValidator returns for the table that holds
\* the rowids 5, 5 and 7 on the leaf page 2
EntriesTwice == EntriesOf(DuplicateRowidValidator_validate(page_cache, db_file, <<>>))

\* C13: is_intra_page of a duplicate entry is true exactly when the entry
\* has at least two locations and all of them are on one page; the issue
\* for a leaf page 2 that holds the rowids 5, 5, 7 has the single entry of
\* key 5 with the locations (2, 0) and (2, 1), and this entry is intra-page.
C13_IntraPage ==
    /\ intra # <<>> =>
          intra.result = (Len(intra.entry.locations) >= 2
                          /\ Cardinality(PagesOf(intra.entry)) = 1)
    /\ EntriesTwice = {[key |-> 5,
                        locations |-> <<RowidLocation(2, 0, <<>>), RowidLocation(2, 1, <<>>)>>]}
    /\ (intra # <<>> /\ intra.entry \in EntriesTwice) => intra.result

\* is_intra_page has returned true for the entry of the rowid 5
C13_Witness ==
    /\ intra # <<>>
    /\ intra.entry \in EntriesTwice
    /\ intra.entry.key = 5
    /\ intra.result

\* is_intra_page has returned false for three locations on two pages
C13_WitnessTwoPages ==
    /\ intra # <<>>
    /\ Len(intra.entry.locations) = 3
    /\ Cardinality(PagesOf(intra.entry)) = 2
    /\ ~intra.result

\* is_intra_page has returned false for an entry of a single location
C13_WitnessOneLocation ==
    /\ intra # <<>>
    /\ Len(intra.entry.locations) = 1
    /\ ~intra.result

\* the BTreeInfo records discover_btrees returns for the database
InfosOf(cache, file) ==
    LET r == discover_btrees(cache, file)
    IN  IF r.ok THEN HashSetOf(r.btrees) ELSE {}

\* the entries of the leaves of the index tree: <<value, rowid, page, cell>>
IndexLeafEntries(sc) ==
    UNION {{<<sc.index.leaves[l][c][1], sc.index.leaves[l][c][2], IndexLeafNo(sc, l), c - 1>> :
              c \in DOMAIN sc.index.leaves[l]} : l \in DOMAIN sc.index.leaves}

\* two leaf entries hold the same value for rowids that SQLite writes with
\* the same serial type
SameValueTwice(sc) ==
    \E x \in IndexLeafEntries(sc), y \in IndexLeafEntries(sc) :
        x # y /\ x[1] = y[1] /\ IntCol(x[2]).st = IntCol(y[2]).st

\* C14: DuplicateIndexKeyValidator returns no issue for an index whose
\* is_unique is false and none for a table, whatever keys the B-tree holds:
\* every issue it returns is located at a discovered index that is unique.
C14_NonUniqueNoIssue ==
    key_issues.ok =>
        \A i \in DOMAIN key_issues.issues :
            \E b \in InfosOf(page_cache, db_file) :
                /\ b.root_page = key_issues.issues[i].location.root_page
                /\ b.name = key_issues.issues[i].location.name
                /\ ~b.is_table
                /\ b.is_unique

\* an index that is not unique holds the same key twice, and the validator
\* has returned no issue
C14_Witness ==
    /\ key_issues.ok
    /\ key_issues.issues = <<>>
    /\ SameValueTwice(scenario)
    /\ \E b \in InfosOf(page_cache, db_file) : b.root_page = 3 /\ ~b.is_table /\ ~b.is_unique

\* a unique index holds the same key twice, and the validator has returned an issue
C14_WitnessUnique ==
    /\ key_issues.ok
    /\ key_issues.issues # <<>>
    /\ SameValueTwice(scenario)

\* the entries of the index tree, those of the leaves and the one the
\* interior root carries: <<value, rowid>>
IndexEntries(sc) ==
    {<<x[1], x[2]>> : x \in IndexLeafEntries(sc)} \cup HashSetOf(sc.index.sep)

\* the entries of the index that hold the value v
Holding(sc, v) == {e \in IndexEntries(sc) : e[1] = v}

\* the index holds one value for two rowids and every other value once
OneValueTwice(sc) ==
    /\ \E v \in {e[1] : e \in IndexEntries(sc)} : Cardinality(Holding(sc, v)) = 2
    /\ Cardinality({v \in {e[1] : e \in IndexEntries(sc)} : Cardinality(Holding(sc, v)) > 1}) = 1

\* C15: for a unique index that holds two entries with identical indexed
\* column values referencing two different rowids, whichever the two
\* rowids, DuplicateIndexKeyValidator returns exactly one issue for the
\* index, and the issue holds one IndexKey with two locations.
C15_TwoEntriesOneIssue ==
    (/\ key_issues.ok
     /\ OneValueTwice(scenario)
     /\ \E b \in InfosOf(page_cache, db_file) : b.root_page = 3 /\ ~b.is_table /\ b.is_unique)
    => /\ Cardinality(IssuesAt(key_issues, 3)) = 1
       /\ \A i \in IssuesAt(key_issues, 3) :
             LET entries == key_issues.issues[i].duplicate_details[1].entries
             IN  /\ key_issues.issues[i].duplicate_details[1].kind = "IndexKey"
                 /\ Cardinality(entries) = 1
                 /\ \A e \in entries : Len(e.locations) = 2

\* the leading columns of an index record: all but the last, each with its
\* serial type and its bytes
LeadingColumns(cols) == SubSeq(cols, 1, Len(cols) - 1)

\* C16: for the records of any two index entries, extract_index_key
\* returns equal IndexKeys if and only if the leading columns of the two
\* records are bit-identical, whatever the values and the serial types of
\* their rowid columns.
C16_KeyEqualIffLeadingEqual ==
    key_pair # <<>> =>
        /\ key_pair.key_a.ok
        /\ key_pair.key_b.ok
        /\ (key_pair.key_a.key = key_pair.key_b.key)
              <=> (LeadingColumns(key_pair.a) = LeadingColumns(key_pair.b))

\* the catalog row of the index of the scenario
IndexRowOf(sc) == sc.rows[2]

\* the index is neither partial nor on an expression, and the catalog holds
\* the table it names
CheckedIndex(sc) ==
    /\ IndexRowOf(sc).sql \notin {<<SqlPartial>>, <<SqlExpression>>}
    /\ IndexRowOf(sc).tbl_name = NameT

\* the rowids the entries of the index reference
RowidsOfIndex(sc) == {e[2] : e \in IndexEntries(sc)}

\* the issues of IndexIntegrityValidator of a kind located at the index
IntegrityIssues(kind) ==
    {i \in IssuesAt(integrity_issues, 3) : integrity_issues.issues[i].message.kind = kind}

\* C17: for an index that IndexIntegrityValidator checks, T being the
\* rowids of the rows of its table and I the rowids its entries reference,
\* the validator returns a "missing" issue of severity Error exactly when
\* T \ I is not empty and a "dangling" issue of severity Error exactly when
\* I \ T is not empty; an index entry left behind by a removed row gives
\* the dangling issue alone, and T = I gives no issue.
C17_MissingAndDangling ==
    (integrity_issues.ok /\ CheckedIndex(scenario)) =>
        /\ Cardinality(IntegrityIssues("missing"))
              = IF RowidsOfTable(scenario) \ RowidsOfIndex(scenario) # {} THEN 1 ELSE 0
        /\ Cardinality(IntegrityIssues("dangling"))
              = IF RowidsOfIndex(scenario) \ RowidsOfTable(scenario) # {} THEN 1 ELSE 0
        /\ \A i \in IssuesAt(integrity_issues, 3) :
              /\ integrity_issues.issues[i].severity = "Error"
              /\ integrity_issues.issues[i].location.kind = "Index"
        /\ \A i \in IntegrityIssues("missing") :
              integrity_issues.issues[i].message.rowids
                  = RowidsOfTable(scenario) \ RowidsOfIndex(scenario)
        /\ \A i \in IntegrityIssues("dangling") :
              integrity_issues.issues[i].message.rowids
                  = RowidsOfIndex(scenario) \ RowidsOfTable(scenario)

\* the index holds one entry for each row of its table and no other
\* entry, and it is neither partial nor on an expression
WellFormedIndex(sc) ==
    /\ CheckedIndex(sc)
    /\ DistinctRowids(sc)
    /\ RowidsOfIndex(sc) = RowidsOfTable(sc)
    /\ Cardinality(IndexEntries(sc)) = Cardinality(RowidsOfTable(sc))

\* C18: for a well-formed index on a table, neither partial nor on an
\* expression, the set of the rowids collect_index_rowids returns equals
\* the set of the rowids of the table, also when the root of the index is
\* an interior page whose cell carries an entry of its own.
C18_IndexRowidsAreTableRowids ==
    (rowid_scan # <<>> /\ rowid_scan.root = 3 /\ WellFormedIndex(scenario)) =>
        /\ rowid_scan.r.ok
        /\ HashSetOf(rowid_scan.r.rowids) = RowidsOfTable(scenario)

RECURSIVE KeptRows(_, _)
\* the rows of the catalog, from the i-th on, whose type is "table" or
\* "index" and whose root page is greater than 0
KeptRows(sc, i) ==
    IF i > Len(sc.rows) THEN <<>>
    ELSE (IF sc.rows[i].type \in {StrTable, StrIndex} /\ sc.rows[i].rootpage > 0
          THEN <<sc.rows[i]>> ELSE <<>>) \o KeptRows(sc, i + 1)

\* C19: discover_btrees returns exactly one BTreeInfo for each catalog row
\* whose type is "table" or "index" and whose rootpage is greater than 0,
\* with the root page, the name and the kind of that row, and nothing for
\* any other row (another type, a rootpage of 0 or a negative rootpage).
C19_OneInfoPerKeptRow ==
    discovered # Unset =>
        /\ discovered.ok
        /\ Len(discovered.btrees) = Len(KeptRows(scenario, 1))
        /\ \A i \in DOMAIN discovered.btrees :
              /\ discovered.btrees[i].root_page = KeptRows(scenario, 1)[i].rootpage
              /\ discovered.btrees[i].name = <<KeptRows(scenario, 1)[i].name>>
              /\ discovered.btrees[i].is_table = (KeptRows(scenario, 1)[i].type = StrTable)

\* the ways a letter of a pattern of capital ASCII letters may be written
\* in a text that to_uppercase maps onto the pattern: the capital, the small
\* letter and, for I, the dotless small i (U+0131)
CaseVariants(b) ==
    {<<b>>, <<b + 32>>} \cup (IF b = 73 THEN {<<196, 177>>} ELSE {})

RECURSIVE MatchesAt(_, _, _, _)
\* the letters of the pattern from the k-th on stand in the text from
\* offset off on, each in one of its case variants
MatchesAt(text, off, pat, k) ==
    IF k > Len(pat) THEN TRUE
    ELSE \E v \in CaseVariants(pat[k]) :
            /\ off + Len(v) <= Len(text)
            /\ SubSeq(text, off + 1, off + Len(v)) = v
            /\ MatchesAt(text, off + Len(v), pat, k + 1)

\* the text holds the pattern somewhere, the case of the letters aside
ContainsNoCase(text, pat) == \E off \in 0..Len(text) : MatchesAt(text, off, pat, 1)

\* what the catalog row of an index says about uniqueness
RowUnique(row) ==
    /\ row.type = StrIndex
    /\ \/ starts_with(row.name, StrAutoindex)
       \/ row.sql # <<>> /\ ContainsNoCase(row.sql[1], StrUnique)

\* C20: a discovered BTreeInfo has is_unique = true if and only if it is
\* an index and either its name starts with "sqlite_autoindex_" or its SQL
\* text contains UNIQUE, the case of the letters aside; every table has
\* is_unique = false.
C20_UniqueIffDeclared ==
    discovered.ok =>
        \A i \in DOMAIN discovered.btrees :
            \E j \in DOMAIN scenario.rows :
                /\ discovered.btrees[i].name = <<scenario.rows[j].name>>
                /\ discovered.btrees[i].is_table = (scenario.rows[j].type = StrTable)
                /\ discovered.btrees[i].is_unique = RowUnique(scenario.rows[j])
                /\ discovered.btrees[i].is_table => ~discovered.btrees[i].is_unique

\* an index declared with "create unique index" in small letters has been
\* discovered as unique
C20_Witness ==
    /\ discovered.ok
    /\ scenario.rows[2].sql = <<SqlLowerUnique>>
    /\ \E i \in DOMAIN discovered.btrees :
          ~discovered.btrees[i].is_table /\ discovered.btrees[i].is_unique

\* an index made for a constraint, without SQL text, has been discovered as unique
C20_WitnessAutoindex ==
    /\ discovered.ok
    /\ scenario.rows[2].sql = <<>>
    /\ scenario.rows[2].name = NameAuto
    /\ \E i \in DOMAIN discovered.btrees :
          ~discovered.btrees[i].is_table /\ discovered.btrees[i].is_unique

\* an index declared without UNIQUE has been discovered as not unique
C20_WitnessNotUnique ==
    /\ discovered.ok
    /\ scenario.rows[2].sql = <<SqlIndex>>
    /\ \E i \in DOMAIN discovered.btrees :
          ~discovered.btrees[i].is_table /\ ~discovered.btrees[i].is_unique

----------------------------------------------------------------------------
(* C21: get_page never fails with PageNotFound.  For a page that is not in *)
(* the overlay and that the base file does not hold (page 0, a page past   *)
(* the end of the file, a page number of 2^31 or more) read_page fails     *)
(* with PageNotFound and get_page returns Ok with page_size zero bytes.    *)

\* the page numbers asked for: 0, the pages of the base file and of the
\* frames, one page past them, and 4294967295 (written -1)
AskedPages == {-1} \cup 0..3

ZeroPage == [i \in 1..page_cache.page_size |-> 0]

C21_NoPageNotFound ==
    \A p \in AskedPages :
        LET got == get_page(page_cache, db_file, p) IN
        /\ got.ok
        /\ Len(got.page) = page_cache.page_size
        /\ p \notin DOMAIN page_cache.overlay /\ ~InBaseFile(p) => got.page = ZeroPage

\* a commit has been applied, and pages 0 and 3, which neither the overlay
\* nor the base file holds and for which read_page fails with PageNotFound,
\* are read as zero pages, while page 1 is read from the base file
C21_Witness ==
    /\ n_applied >= 1
    /\ DOMAIN page_cache.overlay = {2}
    /\ \A p \in {-1, 0, 3} :
          /\ ~read_page(page_cache.page_reader, db_file, p).ok
          /\ read_page(page_cache.page_reader, db_file, p).err.kind = "PageNotFound"
          /\ get_page(page_cache, db_file, p) = [ok |-> TRUE, page |-> ZeroPage]
    /\ get_page(page_cache, db_file, 1).page = BasePage(1)
    /\ BasePage(1) # ZeroPage

\* before any commit is applied page 2, which only the WAL holds, is read
\* as a zero page
C21_WitnessBeforeApply ==
    /\ n_applied = 0
    /\ Len(Commits) >= 1
    /\ Commits[1].frames[1].header.page_number = 2
    /\ get_page(page_cache, db_file, 2) = [ok |-> TRUE, page |-> ZeroPage]

----------------------------------------------------------------------------
(* C22: with check_indexes = false (the default configuration) the         *)
(* duplicate-index-key validator is not among enabled_validators(config)   *)
(* and no index-key issue is emitted; with check_indexes = true it is      *)
(* among them.                                                             *)

\* the names of the validators of a sequence
NamesOf(validators) == {validators[i] : i \in DOMAIN validators}

\* the issues located at an index that the run of the enabled validators got
IndexKeyIssues ==
    UNION {{probe.results[i].issues[j] : j \in DOMAIN probe.results[i].issues} :
             i \in {k \in DOMAIN probe.results : probe.results[k].ok}}

C22_IndexesUncheckedByDefault ==
    (probe # <<>> /\ probe.fn = "enabled_validators") =>
        /\ probe.config = ValidatorConfig_default =>
              /\ "duplicate-index-key" \notin NamesOf(probe.validators)
              /\ \A x \in IndexKeyIssues : x.location.kind # "Index"
        /\ probe.config.check_indexes =>
              "duplicate-index-key" \in NamesOf(probe.validators)

----------------------------------------------------------------------------
(* C23: read_int_column on an integer column of serial type 1..6 returns   *)
(* the value whose two's complement the 1, 2, 3, 4, 6 or 8 bytes of the    *)
(* column are (sign-extended), and 0 and 1 for the serial types 8 and 9.   *)

ReadInt == probe # <<>> /\ probe.fn = "read_int_column"

C23_SignExtended == ReadInt => probe.result = <<probe.value>>

\* the same for the serial types other than 3 and 5
C23_OtherWidths == (ReadInt /\ probe.st \notin {3, 5}) => probe.result = <<probe.value>>

\* what the code returns for the serial types 3 and 5: the three bytes
\* unsigned, and the first four of the six bytes
C23_ThreeAndSix ==
    /\ (ReadInt /\ probe.st = 3) =>
          probe.result = <<IF probe.value < 0 THEN probe.value + 16777216 ELSE probe.value>>
    /\ (ReadInt /\ probe.st = 5) => probe.result = <<probe.value \div 65536>>

----------------------------------------------------------------------------
(* C24: parse_varint on the SQLite varint of a u64 n (whatever bytes       *)
(* follow it) returns n and the length of the varint, which is 1..9; a     *)
(* varint of nine bytes gives all eight bits of its ninth byte; on no      *)
(* byte at all parse_varint fails with UnexpectedEof.                      *)

ParsedVarint == probe # <<>> /\ probe.fn = "parse_varint"

\* the length of the varint of n, by the size of n: k bytes below 2^(7k)
\* for k in 1..8, nine bytes from 2^56 on
VarintLength(n) ==
    IF \E i \in 1..8 : n[i] = 1 THEN 9
    ELSE CHOOSE k \in 1..8 :
            /\ \A i \in 9..(64 - 7 * k) : n[i] = 0
            /\ k > 1 => \E i \in 9..(64 - 7 * (k - 1)) : n[i] = 1

C24_VarintRoundTrip ==
    ParsedVarint =>
        /\ probe.n # <<>> =>
              /\ probe.result64 = [ok |-> TRUE, value |-> probe.n[1],
                                   bytes_read |-> VarintLength(probe.n[1])]
              /\ probe.result64.bytes_read \in 1..9
              /\ probe.result64.bytes_read <= Len(probe.data)
              /\ probe.result # <<>> =>
                    probe.result[1] = [ok |-> TRUE, value |-> IntOf(probe.n[1]),
                                       bytes_read |-> VarintLength(probe.n[1])]
        /\ probe.data = <<>> =>
              /\ probe.result64 = [ok |-> FALSE, err |-> [kind |-> "UnexpectedEof"]]
              /\ probe.result = <<[ok |-> FALSE, err |-> [kind |-> "UnexpectedEof"]]>>

\* the varint of 2^64 - 1 is nine bytes of 255, bytes follow it, and
\* parse_varint has returned 2^64 - 1 and 9
C24_Witness ==
    /\ ParsedVarint
    /\ probe.n = <<[i \in 1..64 |-> 1]>>
    /\ probe.data = [i \in 1..11 |-> IF i <= 9 THEN 255 ELSE IF i = 10 THEN 129 ELSE 2]
    /\ probe.result64.ok
    /\ probe.result64.value = [i \in 1..64 |-> 1]
    /\ probe.result64.bytes_read = 9

\* the varint of 128 is the two bytes 129, 0
C24_WitnessTwoBytes ==
    /\ ParsedVarint
    /\ probe.data = <<129, 0>>
    /\ probe.result = <<[ok |-> TRUE, value |-> 128, bytes_read |-> 2]>>

\* parse_varint was called on no byte and has failed
C24_WitnessEmpty ==
    /\ ParsedVarint
    /\ probe.data = <<>>
    /\ ~probe.result64.ok

----------------------------------------------------------------------------
(* C25: DbHeader::parse accepts 100 bytes exactly when the first 16 are    *)
(* the SQLite magic and the page size (the stored 16-bit value, 1 standing *)
(* for 65536) is one of 512, 1024, ..., 65536; it then returns that page   *)
(* size, and otherwise it returns InvalidDbMagic or InvalidPageSize.       *)

ParsedDbHeader == probe # <<>> /\ probe.fn = "DbHeader::parse"

\* the page size a stored value stands for
PageSizeOf(stored) == IF stored = 1 THEN 65536 ELSE stored

ValidPageSizes == {512, 1024, 2048, 4096, 8192, 16384, 32768, 65536}

C25_HeaderAccepted ==
    ParsedDbHeader =>
        /\ probe.result.ok <=>
              (probe.magic = SQLITE_MAGIC /\ PageSizeOf(probe.stored) \in ValidPageSizes)
        /\ probe.result.ok =>
              probe.result.page_size = PageSizeOf(probe.stored)
              /\ probe.result.page_size \in ValidPageSizes
        /\ ~probe.result.ok => probe.result.err.kind \in {"InvalidDbMagic", "InvalidPageSize"}

\* a header of the stored page size 1 has been accepted with the page size
\* 65536
C25_Witness ==
    /\ ParsedDbHeader
    /\ probe.stored = 1
    /\ probe.result.ok
    /\ probe.result.page_size = 65536

\* a header of the page size 512 has been accepted
C25_Witness512 ==
    /\ ParsedDbHeader
    /\ probe.stored = 512
    /\ probe.result.ok
    /\ probe.result.page_size = 512

\* a header of the page size 768 and one of a wrong magic have been refused
C25_WitnessRefusedSize ==
    /\ ParsedDbHeader
    /\ probe.magic = SQLITE_MAGIC
    /\ probe.stored = 768
    /\ probe.result = [ok |-> FALSE, err |-> [kind |-> "InvalidPageSize", size |-> 768]]

C25_WitnessRefusedMagic ==
    /\ ParsedDbHeader
    /\ probe.magic # SQLITE_MAGIC
    /\ probe.stored = 4096
    /\ probe.result = [ok |-> FALSE, err |-> [kind |-> "InvalidDbMagic"]]

----------------------------------------------------------------------------
(* C26: an error other than a checksum mismatch that a pass raises (such   *)
(* as InvalidPageType while a B-tree is scanned after commit i) does not   *)
(* discard the reports of the earlier passes: they are still part of what  *)
(* validate returns and of what main prints.                               *)

\* the passes before the last one
EarlierPasses == SubSeq(passes, 1, Len(passes) - 1)

\* a pass has failed with an error (an error of a pass is never a checksum
\* mismatch: that one comes from the iterator)
PassFailed == passes # <<>> /\ ~passes[Len(passes)].ok

C26_EarlierReportsSurfaced ==
    (ValidateReturned /\ PassFailed) =>
        \A i \in DOMAIN EarlierPasses : \A j \in DOMAIN EarlierPasses[i].pushed :
            /\ returned.tag = "Ok"
            /\ \E k \in DOMAIN returned.reports : returned.reports[k] = EarlierPasses[i].pushed[j]

----------------------------------------------------------------------------
(* C27: WalHeader::checksum folds the full 8-byte chunks of the data in    *)
(* order, s0 <- s0 + v0 + s1 and then s1 <- s1 + v1 + s0 modulo 2^32, the  *)
(* words v0 and v1 read big-endian under the magic 0x377f0682 and          *)
(* little-endian under 0x377f0683; bytes after the last full chunk are     *)
(* ignored; the result is a function of the endianness, the seed and the   *)
(* data alone.  The sums are stated here on words of four bytes, the       *)
(* highest first, added byte by byte with a carry.                         *)

Checksummed == probe # <<>> /\ probe.fn = "checksum"

\* a + b modulo 2^32 on words of four bytes
AddWords(a, b) ==
    LET d4 == a[4] + b[4]
        d3 == a[3] + b[3] + (d4 \div 256)
        d2 == a[2] + b[2] + (d3 \div 256)
        d1 == a[1] + b[1] + (d2 \div 256)
    IN  <<d1 % 256, d2 % 256, d3 % 256, d4 % 256>>

\* the word of the four bytes of data from the 0-based offset off on
WordAt(data, off, big_endian) ==
    IF big_endian THEN <<data[off + 1], data[off + 2], data[off + 3], data[off + 4]>>
    ELSE <<data[off + 4], data[off + 3], data[off + 2], data[off + 1]>>

\* the sums after a chunk of the words v0 and v1, s0 being the new first sum
FoldSecond(s, v1, s0) == <<s0, AddWords(AddWords(s[2], v1), s0)>>

FoldChunk(s, v0, v1) == FoldSecond(s, v1, AddWords(AddWords(s[1], v0), s[2]))

RECURSIVE FoldChunks(_, _, _, _)
\* the sums after the first n chunks of 8 bytes
FoldChunks(data, n, seed, big_endian) ==
    IF n = 0 THEN seed
    ELSE FoldChunk(FoldChunks(data, n - 1, seed, big_endian),
                   WordAt(data, 8 * (n - 1), big_endian),
                   WordAt(data, 8 * (n - 1) + 4, big_endian))

\* the magic of the header decides the endianness
BigEndianMagic(hdr) == hdr.magic = WAL_MAGIC_BE

C27_ChecksumFold ==
    Checksummed =>
        <<WordBytes(probe.result[1]), WordBytes(probe.result[2])>>
            = FoldChunks(probe.data, Len(probe.data) \div 8,
                         <<WordBytes(probe.initial[1]), WordBytes(probe.initial[2])>>,
                         BigEndianMagic(probe.hdr))

\* under the little-endian magic and the seed (0, 0) the nine bytes 1..9
\* give (0x04030201, 0x0c0a0806): one chunk, read little-endian, the ninth
\* byte ignored
C27_Witness ==
    /\ Checksummed
    /\ probe.hdr.magic = WAL_MAGIC_LE
    /\ probe.initial = Seed00
    /\ probe.data = <<1, 2, 3, 4, 5, 6, 7, 8, 9>>
    /\ WordBytes(probe.result[1]) = <<4, 3, 2, 1>>
    /\ WordBytes(probe.result[2]) = <<12, 10, 8, 6>>

\* under the big-endian magic the same bytes give (0x01020304, 0x06080a0c)
C27_WitnessBigEndian ==
    /\ Checksummed
    /\ probe.hdr.magic = WAL_MAGIC_BE
    /\ probe.initial = Seed00
    /\ probe.data = <<1, 2, 3, 4, 5, 6, 7, 8, 9>>
    /\ WordBytes(probe.result[1]) = <<1, 2, 3, 4>>
    /\ WordBytes(probe.result[2]) = <<6, 8, 10, 12>>

\* the sums wrap: the seed (0xffffffff, 0xffffffff) and eight bytes of 255
\* give (0xfffffffd, 0xfffffffb)
C27_WitnessWraps ==
    /\ Checksummed
    /\ probe.initial = <<(<<65535, 65535>>), (<<65535, 65535>>)>>
    /\ probe.data = [j \in 1..8 |-> 255]
    /\ WordBytes(probe.result[1]) = <<255, 255, 255, 253>>
    /\ WordBytes(probe.result[2]) = <<255, 255, 255, 251>>

\* fewer than eight bytes leave the seed as it is
C27_WitnessNoChunk ==
    /\ Checksummed
    /\ Len(probe.data) = 7
    /\ probe.initial # Seed00
    /\ probe.result = probe.initial

----------------------------------------------------------------------------
(* C28: the running checksum of the iterator is the checksum of the first  *)
(* 24 bytes of the WAL header, seed (0, 0), folded over the first 8 header *)
(* bytes and the page of every accepted frame in turn; after frame i is    *)
(* accepted it is the (checksum1, checksum2) stored in frame i.  A frame   *)
(* that is refused (cut short, of other salts, of a wrong checksum) is not *)
(* counted: the frame index stays at the number of accepted frames, the    *)
(* running checksum at that of the last accepted frame, and the pending    *)
(* buffer holds the accepted frames after the last commit frame.           *)

\* the frames accepted so far that follow the last accepted commit frame
PendingFrom(k) ==
    IF \E c \in wal_facts.commit_frames : c < k
    THEN 1 + CHOOSE c \in wal_facts.commit_frames :
                 c < k /\ \A d \in wal_facts.commit_frames : d < k => d <= c
    ELSE 0

StoredChecksum(i) ==
    <<FrameHeaderOf(wal_file, i).checksum1, FrameHeaderOf(wal_file, i).checksum2>>

C28_RunningChecksum ==
    iter.ok =>
        /\ iter.current_frame_index <= wal_facts.valid_prefix
        /\ iter.current_frame_index = Len(EmittedFrames) + Len(iter.pending_frames)
        /\ iter.current_checksum = Rolling(wal_file, iter.current_frame_index)
        /\ iter.current_frame_index > 0 =>
              iter.current_checksum = StoredChecksum(iter.current_frame_index - 1)
        /\ Ended => iter.current_frame_index = wal_facts.valid_prefix
        /\ Len(iter.pending_frames) = iter.current_frame_index - PendingFrom(iter.current_frame_index)
        /\ \A j \in DOMAIN iter.pending_frames :
              /\ iter.pending_frames[j].frame_index = PendingFrom(iter.current_frame_index) + j - 1
              /\ iter.pending_frames[j].page_data
                    = FramePage(wal_file, iter.pending_frames[j].frame_index)

\* a call of next leaves an iterator that has ended as it is
C28_EndedUnchanged == [][Ended => iter' = iter]_vars

\* frame 0 was accepted and is pending, frame 1 is complete, of the
\* header's salts and of a wrong checksum, and next has returned the
\* error: the running checksum is the one stored in frame 0
C28_Witness ==
    /\ iter.ok
    /\ \E i \in DOMAIN results : results[i].tag = "Err"
    /\ wal_facts.valid_prefix = 1
    /\ wal_facts.end = "checksum"
    /\ iter.current_frame_index = 1
    /\ Len(iter.pending_frames) = 1
    /\ iter.current_checksum = StoredChecksum(0)
    /\ iter.current_checksum # StoredChecksum(1)

\* no frame is accepted: the running checksum is that of the header
C28_WitnessHeaderOnly ==
    /\ iter.ok
    /\ Ended
    /\ wal_facts.valid_prefix = 0
    /\ wal_facts.complete_frames >= 1
    /\ iter.current_checksum = ChecksumChunks(Slice(wal_file, 0, 24), 0, Seed00,
                                              FileBigEndian(wal_file))

\* two frames were accepted, the second a commit frame
C28_WitnessTwoFrames ==
    /\ iter.ok
    /\ iter.current_frame_index = 2
    /\ iter.pending_frames = <<>>
    /\ Len(EmittedFrames) = 2
    /\ iter.current_checksum = StoredChecksum(1)
    /\ StoredChecksum(1) # StoredChecksum(0)

----------------------------------------------------------------------------
(* C29: after any commits have been applied effective_page_count() is the  *)
(* larger of the declared page count of the base file and the largest page *)
(* number written by an applied frame, and applying a commit never makes   *)
(* it smaller, whatever database size the commit declares.                 *)

\* the page numbers the applied frames wrote
AppliedPages == {AppliedFrames[i].header.page_number : i \in DOMAIN AppliedFrames}

\* the largest element of a non-empty set of numbers
Largest(S) == CHOOSE x \in S : \A y \in S : y <= x

C29_CountIsMax ==
    effective_page_count(page_cache) = Largest({page_cache.db_page_count} \cup AppliedPages)

C29_NeverDecreases ==
    effective_page_count(page_cache') >= effective_page_count(page_cache)

C29_EffectivePageCount == []C29_CountIsMax /\ [][C29_NeverDecreases]_vars

\* the base file declares three pages, the applied commit wrote page 2 at
\* most and declares a database of two pages: the count is still 3
C29_Witness ==
    /\ n_applied = 1
    /\ page_cache.db_page_count = 3
    /\ Commits[1].db_size = 2
    /\ 2 \in AppliedPages
    /\ effective_page_count(page_cache) = 3

\* the base file declares one page and an applied commit wrote page 2: the
\* count is 2
C29_WitnessGrown ==
    /\ n_applied >= 1
    /\ page_cache.db_page_count = 1
    /\ 2 \in AppliedPages
    /\ effective_page_count(page_cache) = 2

(* C30: for every page p, get_frame_index(p) and the frame_index of every
   location collect_table_rowids or collect_index_keys emits for page p are
   the index of the highest-indexed applied frame that wrote p, the frame
   whose bytes get_page(p) returns, and are absent exactly when no applied
   frame wrote p. *)
Collected == probe # <<>> /\ probe.fn = "apply_and_collect"

\* the indexes of the applied frames that wrote page p
FramesThatWrote(p) == {i - 1 : i \in {j \in DOMAIN probe.pages : probe.pages[j] = p}}

\* Some(index of the last applied frame that wrote p), or None
LastFrameThatWrote(p) == IF FramesThatWrote(p) = {} THEN <<>> ELSE <<Largest(FramesThatWrote(p))>>

\* the frame whose bytes get_page(p) returns: Some(index) from the mark the
\* frame left, None for the bytes of the database file
ServedBy(p) ==
    LET r == get_page(page_cache, db_file, p)
        base == Slice(db_file, (p - 1) * DriverPageSize, p * DriverPageSize)
    IN  IF r.page = base THEN <<>> ELSE <<r.page[MarkOffset + 1] - 1>>

LocationsLatest(collected) ==
    collected.ok =>
        \A i \in DOMAIN collected.entries :
            collected.entries[i][2].frame_index
                = LastFrameThatWrote(collected.entries[i][2].page_number)

C30_FrameIndexIsLatestWriter ==
    Collected =>
        /\ \A p \in 1..ScanPageCount :
              /\ probe.frame_index[p] = LastFrameThatWrote(p)
              /\ get_frame_index(page_cache, p) = LastFrameThatWrote(p)
              /\ ServedBy(p) = LastFrameThatWrote(p)
              /\ (probe.frame_index[p] = <<>>) <=> (FramesThatWrote(p) = {})
        /\ probe.frame_index[0] = <<>>
        /\ LocationsLatest(probe.table)
        /\ LocationsLatest(probe.keys)

\* a table leaf written twice and one never written, an index leaf written
\* once and one never written, with locations emitted for each
C30_Witness ==
    /\ Collected
    /\ probe.pages = <<4, 7, 4>>
    /\ probe.table.ok /\ probe.keys.ok
    /\ \E i \in DOMAIN probe.table.entries :
          /\ probe.table.entries[i][2].page_number = 4
          /\ probe.table.entries[i][2].frame_index = <<2>>
    /\ \E i \in DOMAIN probe.table.entries :
          /\ probe.table.entries[i][2].page_number = 5
          /\ probe.table.entries[i][2].frame_index = <<>>
    /\ \E i \in DOMAIN probe.keys.entries :
          /\ probe.keys.entries[i][2].page_number = 7
          /\ probe.keys.entries[i][2].frame_index = <<1>>
    /\ \E i \in DOMAIN probe.keys.entries :
          /\ probe.keys.entries[i][2].page_number = 6
          /\ probe.keys.entries[i][2].frame_index = <<>>

\* the root leaf of the table written twice in one commit: the second frame
\* is the one the locations name
C30_WitnessOneCommit ==
    /\ Collected
    /\ probe.pages = <<2, 2, 3, 6>>
    /\ ~probe.each
    /\ probe.table.ok /\ probe.table.entries # <<>>
    /\ \A i \in DOMAIN probe.table.entries :
          probe.table.entries[i][2].page_number = 2
          /\ probe.table.entries[i][2].frame_index = <<1>>

(* C31: during table-rowid, index-key and index-rowid collection a cell
   pointer whose offset lies outside the page produces the error
   CellPointerOutOfBounds; an unknown page-type byte produces
   InvalidPageType and a truncated page header produces UnexpectedEof. *)
Damaged == probe # <<>> /\ probe.fn = "collect_damaged"

\* the pages of the table tree and of the index tree of the scenario
TablePages == IF Len(scenario.table) = 1 THEN {2} ELSE {2, 4, 5}
IndexPages == IF Len(scenario.index.leaves) = 1 THEN {3} ELSE {3, 6, 7}

FailedWith(r, kind) == ~r.ok /\ r.err.kind = kind

\* an unknown page-type byte on a page of a tree: InvalidPageType, with the
\* byte and the page
C31_UnknownPageType ==
    Damaged /\ probe.kind = "bad_type" =>
        /\ probe.page_num \in TablePages =>
              /\ FailedWith(probe.table, "InvalidPageType")
              /\ probe.table.err.byte = 7 /\ probe.table.err.page_num = probe.page_num
        /\ probe.page_num \in IndexPages =>
              /\ FailedWith(probe.keys, "InvalidPageType")
              /\ FailedWith(probe.rowids, "InvalidPageType")
              /\ probe.keys.err.page_num = probe.page_num

\* a header cut short: UnexpectedEof from BTreePageHeader::parse, for every
\* page of the file cut before the end of its header
C31_TruncatedHeader ==
    \A p \in 1..ScanPageCount :
        LET page == Slice(db_file, (p - 1) * DriverPageSize, p * DriverPageSize)
            offset == IF p = 1 THEN 100 ELSE 0
            size == offset + (IF page[offset + 1] \in {2, 5} THEN 12 ELSE 8)
        IN  \A n \in ({0, offset, offset + 7} \cup
                      (IF page[offset + 1] \in {2, 5, 10, 13} THEN {size - 1} ELSE {})) :
                FailedWith(BTreePageHeader_parse(Slice(page, 0, n), p), "UnexpectedEof")

\* the error the code keeps for a pointer array that runs past the page
C31_PointerArrayPastPage ==
    Damaged /\ probe.kind = "many_cells" =>
        /\ probe.page_num \in TablePages => FailedWith(probe.table, "CellPointerOutOfBounds")
        /\ probe.page_num \in IndexPages =>
              /\ FailedWith(probe.keys, "CellPointerOutOfBounds")
              /\ FailedWith(probe.rowids, "CellPointerOutOfBounds")

\* the claim: a cell pointer naming an offset past the page is an error
C31_PointerOutIsAnError ==
    Damaged /\ probe.kind = "pointer_out" =>
        /\ probe.page_num \in TablePages => FailedWith(probe.table, "CellPointerOutOfBounds")
        /\ probe.page_num \in IndexPages =>
              /\ FailedWith(probe.keys, "CellPointerOutOfBounds")
              /\ FailedWith(probe.rowids, "CellPointerOutOfBounds")

\* what the code does with such a pointer: the cell is passed over and the
\* collection returns without error
C31_PointerOutSkipped ==
    Damaged /\ probe.kind = "pointer_out" =>
        /\ probe.page_num \in TablePages => probe.table.ok
        /\ probe.page_num \in IndexPages => probe.keys.ok /\ probe.rowids.ok

(* C32: a single malformed cell on a leaf page (for example a table-leaf
   cell whose payload-length varint ends at the last byte of the page,
   leaving no byte for the rowid varint) is skipped: the collection does not
   fail and still returns the rowids or keys of every other cell of the
   tree. *)
\* the cache of the base state of the scenario
BaseCache == CacheOf(db_file, DbHeader_from_file(db_file))

\* the leaves of the two trees of the scenario
TableLeaves == IF Len(scenario.table) = 1 THEN {2} ELSE {4, 5}
IndexLeaves == IF Len(scenario.index.leaves) = 1 THEN {3} ELSE {6, 7}

\* what was collected for each cell: the value, the page and the cell
CellsOf(entries) ==
    {<<entries[i][1], entries[i][2].page_number, entries[i][2].cell_index>> :
        i \in DOMAIN entries}

\* the same without the first cell of the page
OtherCells(entries, page_num) == {c \in CellsOf(entries) : ~(c[2] = page_num /\ c[3] = 0)}

\* the first cell pointer of a leaf names the last byte of the page
LastByteCell(leaves) ==
    Damaged /\ probe.kind = "pointer_last" /\ probe.page_num \in leaves

\* the claim on a table leaf: the cell is skipped and the others are returned
C32_MalformedCellSkipped ==
    LastByteCell(TableLeaves) =>
        /\ probe.table.ok
        /\ CellsOf(probe.table.entries)
             = OtherCells(collect_table_rowids(BaseCache, db_file, 2).entries, probe.page_num)

\* what the code does on a table leaf: the collection fails
C32_TableCollectionFails ==
    LastByteCell(TableLeaves) => FailedWith(probe.table, "UnexpectedEof")

\* ... and on an index leaf: the cell is skipped, the keys of the others are
\* returned, and the rowids of the others
C32_IndexCellSkipped ==
    LastByteCell(IndexLeaves) =>
        /\ probe.keys.ok /\ probe.rowids.ok
        /\ CellsOf(probe.keys.entries)
             = OtherCells(collect_index_keys(BaseCache, db_file, 3).entries, probe.page_num)
        /\ Len(probe.rowids.rowids)
             = Len(collect_index_rowids(BaseCache, db_file, 3).rowids) - 1

----------------------------------------------------------------------------
(* C33: in each pass the list of B-trees is rediscovered from the catalog
   as seen through the current overlay: a table or index whose catalog row
   first appears in the frames of commit i is scanned in pass i and not in
   the base pass or any pass before i, and one whose row is removed by
   commit i is no longer scanned from pass i on. *)
\* the position in the written file of the last frame of the c-th commit
\* (0 for the base state)
CommitEnd(c) ==
    IF c = 0 THEN 0
    ELSE CHOOSE j \in DOMAIN scenario.frames :
            /\ scenario.frames[j].commit
            /\ Cardinality({i \in 1..j : scenario.frames[i].commit}) = c

\* the image of page pg after c commits: the one the last frame of these
\* commits that wrote pg carries, or the one of the base file
ImageAt(pg, c) ==
    LET written == {j \in 1..CommitEnd(c) : scenario.frames[j].pg = pg} IN
    IF written = {}
    THEN CASE pg = 1 -> scenario.cat [] pg = 2 -> "dup" [] pg = 3 -> scenario.keys
    ELSE scenario.frames[Largest(written)].img

\* the names of the catalog rows after c commits
ListedAt(c) == {CatalogRowsOf(ImageAt(1, c))[i].name : i \in DOMAIN CatalogRowsOf(ImageAt(1, c))}

\* the names of the B-trees that hold a duplicate after c commits: the table
\* t always, the index i when its leaf holds a value twice
HoldingDuplicatesAt(c) == {NameT} \cup (IF ImageAt(3, c) = "keys_dup" THEN {NameI} ELSE {})

\* after c commits a listed B-tree leads to a page that neither the overlay
\* nor the file holds: the index rooted at page 5, or page 0 under the root
\* of t
MissingPageAt(c) ==
    \/ ImageAt(1, c) = "cat_far"
    \/ NameT \in ListedAt(c) /\ ImageAt(2, c) = "zero_child"

\* the names of the B-trees a pass reported
ReportedIn(k) == {passes[k].pushed[i].name[1] : i \in DOMAIN passes[k].pushed}

\* pass k, made after k - 1 commits, reports the B-trees the catalog lists
\* after these commits, and no other
C33_RediscoveredEachPass ==
    \A k \in DOMAIN passes :
        /\ passes[k].ok = ~MissingPageAt(k - 1)
        /\ passes[k].commit_index = (IF k = 1 THEN <<>> ELSE <<k - 2>>)
        /\ passes[k].ok => ReportedIn(k) = ListedAt(k - 1) \cap HoldingDuplicatesAt(k - 1)

\* the row of the index first appears in the second commit: the index is
\* reported in the pass of that commit and in no pass before
C33_Witness ==
    /\ Len(passes) = 3
    /\ NameI \notin ListedAt(0) /\ NameI \notin ListedAt(1) /\ NameI \in ListedAt(2)
    /\ NameI \notin ReportedIn(1) /\ NameI \notin ReportedIn(2) /\ NameI \in ReportedIn(3)
    /\ ImageAt(3, 0) = "keys_dup"

\* the row of the table is removed by the first commit: the table is
\* reported in the base pass and in no pass after
C33_WitnessRemoved ==
    /\ Len(passes) = 3
    /\ NameT \in ListedAt(0) /\ NameT \notin ListedAt(1) /\ NameT \notin ListedAt(2)
    /\ NameT \in ReportedIn(1) /\ NameT \notin ReportedIn(2) /\ NameT \notin ReportedIn(3)

(* C34: validate reports no duplicate-key issue for an index that is not
   unique: an ordinary (non-UNIQUE, non-autoindex) index holding the same
   key twice adds no report, in the base pass and in every commit pass. *)
\* after c commits the catalog lists the index i as an ordinary index
OrdinaryIndexAt(c) == ImageAt(1, c) \in {"cat_ti", "cat_i"}

\* the reports of pass k on the index i
IndexReportsIn(k) ==
    {i \in DOMAIN passes[k].pushed :
        passes[k].pushed[i].duplicate_type = "IndexKey" /\ passes[k].pushed[i].name = <<NameI>>}

\* the claim: no pass reports an ordinary index
C34_OrdinaryIndexUnreported ==
    \A k \in DOMAIN passes : OrdinaryIndexAt(k - 1) => IndexReportsIn(k) = {}

\* what the code does: a pass reports an index, ordinary or unique, when its
\* leaf holds a key twice
C34_EveryIndexReported ==
    \A k \in DOMAIN passes :
        NameI \in ListedAt(k - 1) /\ passes[k].ok =>
            (IndexReportsIn(k) # {}) <=> (ImageAt(3, k - 1) = "keys_dup")

----------------------------------------------------------------------------
(* C35: a framework run instantiates the enabled validators once and
   invokes every one of them at the base state and after each commit; the
   set it runs (enabled_validators) contains all three checks,
   duplicate-rowid, duplicate-index-key and index-integrity, so a dangling
   index entry yields an index-integrity issue in the pass where it is
   visible. *)
EnabledRun == probe # <<>> /\ probe.fn = "enabled_validators"

\* the issues the run of the enabled validators got
IssuesOfRun ==
    UNION {{probe.results[i].issues[j] : j \in DOMAIN probe.results[i].issues} :
             i \in {k \in DOMAIN probe.results : probe.results[k].ok}}

\* IndexIntegrityValidator, run on the state, finds an index entry whose row
\* the table does not hold
DanglingVisible ==
    LET r == IndexIntegrityValidator_validate(page_cache, db_file, <<>>) IN
    r.ok /\ \E i \in DOMAIN r.issues : r.issues[i].message.kind = "dangling"

\* the claim: the three checks are run, and a dangling entry is reported
C35_AllThreeChecksRun ==
    EnabledRun /\ probe.config.check_indexes =>
        /\ NamesOf(probe.validators)
             = {"duplicate-rowid", "duplicate-index-key", "index-integrity"}
        /\ DanglingVisible =>
              \E x \in IssuesOfRun :
                  x.validator = "index-integrity" /\ x.message.kind = "dangling"

\* what the code does: the two duplicate checks are run, each once and in
\* this order, and no issue of index-integrity is returned
C35_TwoChecksRun ==
    EnabledRun =>
        /\ probe.validators = <<"duplicate-rowid", "duplicate-index-key">>
        /\ Len(probe.results) = 2
        /\ \A x \in IssuesOfRun : x.validator # "index-integrity"

(* C36: validators are stateless and read-only on the shared page cache:
   running any validator or scanner operation (discover_btrees,
   collect_table_rowids, collect_index_keys, collect_index_rowids) leaves
   the overlay unchanged, and running the same validator twice on the same
   overlay state yields the same set of issues. *)
RanTwice == probe # <<>> /\ probe.fn = "validate_twice"

\* the set of the issues of a run
IssueSet(r) == {r.issues[i] : i \in DOMAIN r.issues}

C36_ScansKeepCache ==
    [][(phase \in {"scan", "discovered"} /\ probe' = probe) => (page_cache' = page_cache)]_vars

C36_WitnessBase ==
    /\ RanTwice
    /\ probe.before.overlay = <<>>
    /\ probe.validator = "duplicate-index-key"
    /\ probe.first.ok /\ probe.first.issues # <<>>

----------------------------------------------------------------------------
(* C37: discover_btrees, collect_table_rowids, collect_index_keys and
   collect_index_rowids terminate for every finite page state, including
   adversarial ones in which interior-page child pointers form a cycle (a
   page that is its own child or the child of one of its descendants). *)
\* the loop of a scan had not ended when the model stopped it
Unended(r) == ~r.ok /\ r.err.kind = "OutOfPops"

\* the claim: every scan of a damaged state returns
C37_ScansTerminate ==
    Damaged =>
        /\ ~Unended(probe.btrees) /\ ~Unended(probe.table)
        /\ ~Unended(probe.keys) /\ ~Unended(probe.rowids)

\* the stack of a scan after the page on top of <<page_num>> was popped and
\* its children were pushed
AfterPop(page_num) ==
    LET page == get_page(page_cache, db_file, page_num).page
        h == BTreePageHeader_parse(page, page_num)
    IN  PushInterior(h.header, page, get_cell_pointers(h.header, page, page_num).pointers, <<>>)

\* what the code does with a page that is its own child: the loop of the
\* scan that starts at it comes back to the state it started from, with the
\* page alone on the stack and nothing collected, so it never ends
C37_OwnChildNeverEnds ==
    Damaged /\ probe.kind = "self_child" /\ probe.page_num \in {1, 2, 3} =>
        /\ AfterPop(probe.page_num) = <<probe.page_num>>
        /\ probe.page_num = 1 => Unended(probe.btrees)
        /\ probe.page_num = 2 => Unended(probe.table)
        /\ probe.page_num = 3 => Unended(probe.keys) /\ Unended(probe.rowids)

\* ... and with a page whose child is the root it hangs under: every visit
\* of the page pushes the root again
C37_ChildOfDescendantNeverEnds ==
    Damaged /\ probe.kind = "root_child" =>
        /\ probe.page_num \in TablePages \ {2} => Unended(probe.table)
        /\ probe.page_num \in IndexPages \ {3} =>
              Unended(probe.keys) /\ Unended(probe.rowids)

\* without a cycle every scan returns
C37_TreesTerminate ==
    /\ Damaged /\ probe.kind \notin {"self_child", "root_child"} =>
          /\ ~Unended(probe.btrees) /\ ~Unended(probe.table)
          /\ ~Unended(probe.keys) /\ ~Unended(probe.rowids)
    /\ Collected => ~Unended(probe.table) /\ ~Unended(probe.keys)

----------------------------------------------------------------------------
(* C38: a traversal that reaches a page number held neither by the overlay *)
(* nor by the base file (a child pointer or a root page of 0 among them)   *)
(* does not skip the zero-filled page put in its place: the scan fails     *)
(* with InvalidPageType(0x00, page), and validate returns that error for   *)
(* the whole run.                                                          *)

\* InvalidPageType for the zero byte read as the type of the page
ZeroPageType(page_num) == [kind |-> "InvalidPageType", page_num |-> page_num, byte |-> 0]

\* the page that is missing after c commits, when one is
MissingPage(c) == IF ImageAt(1, c) = "cat_far" /\ ImageAt(2, c) # "zero_child" THEN 5 ELSE 0

\* the pass that reaches a missing page fails and is the last pass of the
\* run: validate returns InvalidPageType(0, page) at once, and main exits
\* with status 1
C38_MissingPageFailsRun ==
    \A k \in DOMAIN passes :
        MissingPageAt(k - 1) =>
            /\ ~passes[k].ok
            /\ k = Len(passes)
            /\ returned = [tag |-> "Err", err |-> ZeroPageType(MissingPage(k - 1))]
            /\ phase = "exited" => exit_code = 1

\* a commit pass has reached page 0 under the root of t after a base pass
\* that pushed a report, and validate has returned
C38_Witness ==
    /\ ValidateReturned
    /\ Len(passes) >= 2
    /\ MissingPageAt(Len(passes) - 1)
    /\ passes[1].pushed # <<>>
    /\ returned.tag = "Err"

\* the base pass has reached the root of an index that the file does not hold
C38_WitnessRoot ==
    /\ ValidateReturned
    /\ Len(passes) = 1
    /\ ImageAt(1, 0) = "cat_far"
    /\ returned.tag = "Err"

\* the same in the collections of the scanner, for a child pointer of 0 and
\* for one past the end of the file, on the catalog, on the table and on the
\* index: the error names the missing page
C38_MissingChildFailsScan ==
    Damaged /\ probe.kind \in {"zero_child", "far_child"} =>
        LET e == ZeroPageType(IF probe.kind = "zero_child" THEN 0 ELSE ScanPageCount + 2) IN
        /\ probe.page_num = 1 => ~probe.btrees.ok /\ probe.btrees.err = e
        /\ probe.page_num \in TablePages => ~probe.table.ok /\ probe.table.err = e
        /\ probe.page_num \in IndexPages =>
              /\ ~probe.keys.ok /\ probe.keys.err = e
              /\ ~probe.rowids.ok /\ probe.rowids.err = e

\* a root page of 0, or one past the end of the file, handed to the
\* collections as it is
C38_MissingRootFailsScan ==
    phase = "scan" =>
        \A root \in {0, ScanPageCount + 1} :
            /\ collect_table_rowids(page_cache, db_file, root) = [ok |-> FALSE, err |-> ZeroPageType(root)]
            /\ collect_index_keys(page_cache, db_file, root) = [ok |-> FALSE, err |-> ZeroPageType(root)]
            /\ collect_index_rowids(page_cache, db_file, root) = [ok |-> FALSE, err |-> ZeroPageType(root)]

----------------------------------------------------------------------------
(* C39: the reports validate returns are in the order of the passes: every *)
(* report of the base state (commit_index None) comes before every report  *)
(* of a commit, the reports of the commits come in non-decreasing          *)
(* commit_index, a pass and a B-tree together give at most one report, and *)
(* only if the B-tree holds at least one duplicate, and the count of       *)
(* commits returned is the number of commits applied.                      *)

\* the pass a report was made in: 0 for the base state, c for the c-th commit
PassOf(report) == IF report.commit_index = <<>> THEN 0 ELSE report.commit_index[1] + 1

\* the commits of the written WAL
CommitsWritten == Cardinality({j \in DOMAIN scenario.frames : scenario.frames[j].commit})

C39_ReportsInPassOrder ==
    returned.tag = "Ok" =>
        /\ \A i, j \in DOMAIN returned.reports :
              i < j =>
                 /\ PassOf(returned.reports[i]) <= PassOf(returned.reports[j])
                 /\ ~(/\ PassOf(returned.reports[i]) = PassOf(returned.reports[j])
                      /\ returned.reports[i].btree_root = returned.reports[j].btree_root)
        /\ \A i \in DOMAIN returned.reports :
              /\ PassOf(returned.reports[i]) \in 0..CommitsWritten
              /\ has_duplicates(returned.reports[i])
              /\ returned.reports[i].name[1] \in HoldingDuplicatesAt(PassOf(returned.reports[i]))
        /\ returned.total_commits = n_applied
        /\ returned.total_commits = CommitsWritten

\* validate has returned the reports of the base state and of two commits,
\* one pass having scanned an index that holds no duplicate
C39_Witness ==
    /\ returned.tag = "Ok"
    /\ returned.total_commits = 2
    /\ {PassOf(returned.reports[i]) : i \in DOMAIN returned.reports} = {0, 1, 2}
    /\ Len(returned.reports) >= 4
    /\ \E c \in 0..2 : NameI \in ListedAt(c) /\ NameI \notin HoldingDuplicatesAt(c)

====
